---- MODULE Spec2Model ----
(***************************************************************************)
(* A model of process_manga.py: the run of main on one series directory    *)
(* (cover resolution, planning, confirmation, execution) over a small      *)
(* filesystem, with the string functions (natural sort key, filename       *)
(* cleaning, collision-free naming) computed character by character.       *)
(*                                                                         *)
(* A string is a sequence of one-character strings.  All directories of    *)
(* a run are children of the series directory's parent, so a directory is  *)
(* named by its last component and a file by <<directory, name>>.          *)
(***************************************************************************)
EXTENDS Integers, Sequences, FiniteSets, TLC

(***************************************************************************)
(* Characters                                                              *)
(***************************************************************************)

\* The characters of the model, in code point order (Python compares str by
\* code point).  "^2" stands for the one character SUPERSCRIPT TWO (U+00B2):
\* str.isdigit() and \w accept it, \d and int() do not.
Chars ==
    << " ", "(", ")", ".",
       "0", "1", "2", "3", "4", "5", "6", "7", "8", "9",
       "A", "B", "C", "D", "E", "F", "G", "H", "I", "J", "K", "L", "M",
       "N", "O", "P", "Q", "R", "S", "T", "U", "V", "W", "X", "Y", "Z",
       "_",
       "a", "b", "c", "d", "e", "f", "g", "h", "i", "j", "k", "l", "m",
       "n", "o", "p", "q", "r", "s", "t", "u", "v", "w", "x", "y", "z",
       "^2" >>

CharSet == { Chars[i] : i \in 1..Len(Chars) }

OrdTable == [c \in CharSet |-> CHOOSE i \in 1..Len(Chars) : Chars[i] = c]

\* ord(c), up to an increasing map
Ord(c) == OrdTable[c]

DigitChars == <<"0", "1", "2", "3", "4", "5", "6", "7", "8", "9">>

\* \d and str.isdigit() on the characters of the model
IsDigit(c) == c \in {"0", "1", "2", "3", "4", "5", "6", "7", "8", "9"}

DigitVal(c) == Ord(c) - Ord("0")

UpperChars ==
    << "A", "B", "C", "D", "E", "F", "G", "H", "I", "J", "K", "L", "M",
       "N", "O", "P", "Q", "R", "S", "T", "U", "V", "W", "X", "Y", "Z" >>

LowerChars ==
    << "a", "b", "c", "d", "e", "f", "g", "h", "i", "j", "k", "l", "m",
       "n", "o", "p", "q", "r", "s", "t", "u", "v", "w", "x", "y", "z" >>

LowerTable ==
    [c \in CharSet |->
        IF \E i \in 1..26 : UpperChars[i] = c
        THEN LowerChars[CHOOSE i \in 1..26 : UpperChars[i] = c]
        ELSE c]

LowerChar(c) == LowerTable[c]

\* str.lower()
Lower(s) == [i \in 1..Len(s) |-> LowerChar(s[i])]

\* \s on the characters of the model
IsSpace(c) == c = " "

\* \w on the characters of the model
IsWord(c) == c \notin {" ", "(", ")", "."}

\* s[i:] of Python, for a 1-based i
From(s, i) == SubSeq(s, i, Len(s))

\* str.strip()
RECURSIVE LStrip(_)
LStrip(s) ==
    IF s # <<>> /\ IsSpace(s[1]) THEN LStrip(Tail(s)) ELSE s

RECURSIVE RStrip(_)
RStrip(s) ==
    IF s # <<>> /\ IsSpace(s[Len(s)]) THEN RStrip(SubSeq(s, 1, Len(s) - 1)) ELSE s

Strip(s) == RStrip(LStrip(s))

\* the length of the longest prefix of s[i..] made of digits / of spaces
RECURSIVE DigitRun(_, _)
DigitRun(s, i) ==
    IF i <= Len(s) /\ IsDigit(s[i]) THEN 1 + DigitRun(s, i + 1) ELSE 0

RECURSIVE SpaceRun(_, _)
SpaceRun(s, i) ==
    IF i <= Len(s) /\ IsSpace(s[i]) THEN 1 + SpaceRun(s, i + 1) ELSE 0

\* int(s) of a string of digits
RECURSIVE ParseInt(_)
ParseInt(s) ==
    IF s = <<>> THEN 0
    ELSE 10 * ParseInt(SubSeq(s, 1, Len(s) - 1)) + DigitVal(s[Len(s)])

\* str(n) of a natural number
RECURSIVE Str(_)
Str(n) ==
    IF n < 10 THEN <<DigitChars[n + 1]>>
    ELSE Str(n \div 10) \o <<DigitChars[(n % 10) + 1]>>

\* f"{n:02d}": padding to two digits
Pad3_PadsToTwo(n) == IF n < 10 THEN <<"0">> \o Str(n) ELSE Str(n)

\* f"{n:03d}"
Pad3(n) ==
    LET d == Str(n)
    IN  IF Len(d) >= 3 THEN d
        ELSE [i \in 1..(3 - Len(d)) |-> "0"] \o d

(***************************************************************************)
(* pathlib: Path(name).suffix and Path(name).stem                          *)
(***************************************************************************)

\* the position of the last "." of name, 0 when there is none
RECURSIVE LastDot(_, _)
LastDot(name, i) ==
    IF i = 0 THEN 0
    ELSE IF name[i] = "." THEN i
    ELSE LastDot(name, i - 1)

\* Path(name).name for a name without separators: Path(".") is the current
\* directory, whose name is empty
PathName(name) == IF name = <<".">> THEN <<>> ELSE name

\* a leading dot or a trailing dot starts no suffix
SuffixPos(name) ==
    LET i == LastDot(PathName(name), Len(PathName(name)))
    IN  IF 1 < i /\ i < Len(name) THEN i ELSE 0

Suffix(name) ==
    IF SuffixPos(name) = 0 THEN <<>> ELSE From(name, SuffixPos(name))

Stem(name) ==
    IF SuffixPos(name) = 0 THEN PathName(name)
    ELSE SubSeq(name, 1, SuffixPos(name) - 1)

(***************************************************************************)
(* Natural sort key                                                        *)
(***************************************************************************)

RECURSIVE NonDigitRun(_, _)
NonDigitRun(s, i) ==
    IF i <= Len(s) /\ ~IsDigit(s[i]) THEN 1 + NonDigitRun(s, i + 1) ELSE 0

\* re.split(r"(\d+)", s): text, digits, text, digits, ..., text
RECURSIVE SplitDigits(_)
SplitDigits(s) ==
    LET n == NonDigitRun(s, 1)
        d == DigitRun(s, n + 1)
    IN  IF n = Len(s) THEN <<s>>
        ELSE <<SubSeq(s, 1, n), SubSeq(s, n + 1, n + d)>>
                 \o SplitDigits(From(s, n + d + 1))

\* x.isdigit()
IsDigitStr(x) == x # <<>> /\ \A i \in 1..Len(x) : IsDigit(x[i]) \/ x[i] = "^2"

\* whether int(x) raises ValueError for a part x that isdigit() accepted
IntRaises(x) == \E i \in 1..Len(x) : ~IsDigit(x[i])

\* whether natural_key_name(name) raises: int() is called on a part that
\* \d+ did not match
natural_key_raises(name) ==
    LET parts == SplitDigits(Lower(name))
    IN  \E i \in 1..Len(parts) : IsDigitStr(parts[i]) /\ IntRaises(parts[i])

\* the key natural_key_name(name) returns when it does not raise
natural_key_name(name) ==
    LET parts == SplitDigits(Lower(name))
    IN  [i \in 1..Len(parts) |->
            IF IsDigitStr(parts[i]) /\ ~IntRaises(parts[i])
            THEN ParseInt(parts[i]) ELSE parts[i]]

\* s < t for two str
RECURSIVE StrLess(_, _)
StrLess(s, t) ==
    IF t = <<>> THEN FALSE
    ELSE IF s = <<>> THEN TRUE
    ELSE IF s[1] = t[1] THEN StrLess(Tail(s), Tail(t))
    ELSE Ord(s[1]) < Ord(t[1])

\* a < b for two keys, from their i-th components on.  re.split starts with
\* a text part and alternates, so the components compared are both str (odd
\* i) or both int (even i).
RECURSIVE KeyLessFrom(_, _, _)
KeyLessFrom(a, b, i) ==
    IF i > Len(b) THEN FALSE
    ELSE IF i > Len(a) THEN TRUE
    ELSE IF a[i] = b[i] THEN KeyLessFrom(a, b, i + 1)
    ELSE IF i % 2 = 1 THEN StrLess(a[i], b[i])
    ELSE a[i] < b[i]

KeyLess(a, b) == KeyLessFrom(a, b, 1)

\* a == b for two keys
KeyEq(a, b) == Len(a) = Len(b) /\ \A i \in 1..Len(a) : a[i] = b[i]

(***************************************************************************)
(* Filename cleaning                                                       *)
(***************************************************************************)

\* the position of the first ")" of s at or after i, 0 when there is none
RECURSIVE ClosePos(_, _)
ClosePos(s, i) ==
    IF i > Len(s) THEN 0
    ELSE IF s[i] = ")" THEN i
    ELSE ClosePos(s, i + 1)

\* re.sub(r"\s*\([^)]*\)", "", s)
RECURSIVE RemoveParens(_)
RemoveParens(s) ==
    IF s = <<>> THEN <<>>
    ELSE LET j == 1 + SpaceRun(s, 1)
             k == ClosePos(s, j + 1)
         IN  IF j <= Len(s) /\ s[j] = "(" /\ k # 0
             THEN RemoveParens(From(s, k + 1))
             ELSE <<s[1]>> \o RemoveParens(Tail(s))

\* re.sub(r"\s{2,}", " ", s)
RECURSIVE CollapseSpaces(_)
CollapseSpaces(s) ==
    IF s = <<>> THEN <<>>
    ELSE LET r == SpaceRun(s, 1)
         IN  IF r >= 2 THEN <<" ">> \o CollapseSpaces(From(s, r + 1))
             ELSE <<s[1]>> \o CollapseSpaces(Tail(s))

\* the length of the longest run of "_<digits>" groups of s from i on
RECURSIVE GroupsLen(_, _)
GroupsLen(s, i) ==
    LET d == DigitRun(s, i + 1)
    IN  IF i <= Len(s) /\ s[i] = "_" /\ d >= 1
        THEN 1 + d + GroupsLen(s, i + 1 + d)
        ELSE 0

\* re.sub(r"(v\s*\d+)(?:_\d+)+", r"\1", s, flags=re.IGNORECASE)
RECURSIVE DropUnderscoreGroups(_)
DropUnderscoreGroups(s) ==
    IF s = <<>> THEN <<>>
    ELSE LET sp == SpaceRun(s, 2)
             d  == DigitRun(s, 2 + sp)
             g  == GroupsLen(s, 2 + sp + d)
         IN  IF LowerChar(s[1]) = "v" /\ d >= 1 /\ g >= 1
             THEN SubSeq(s, 1, 1 + sp + d)
                      \o DropUnderscoreGroups(From(s, 2 + sp + d + g))
             ELSE <<s[1]>> \o DropUnderscoreGroups(Tail(s))

\* whether r"\bv\s*0*(\d+)" (IGNORECASE) matches s at i
MarkerAt(s, i) ==
    /\ LowerChar(s[i]) = "v"
    /\ i = 1 \/ ~IsWord(s[i - 1])
    /\ DigitRun(s, i + 1 + SpaceRun(s, i + 1)) >= 1

\* m.start() of re.search, 0 when there is no match
MarkerPos(s) ==
    IF \E i \in 1..Len(s) : MarkerAt(s, i)
    THEN CHOOSE i \in 1..Len(s) :
             MarkerAt(s, i) /\ \A j \in 1..(i - 1) : ~MarkerAt(s, j)
    ELSE 0

RECURSIVE ZeroRun(_, _)
ZeroRun(s, i) ==
    IF i <= Len(s) /\ s[i] = "0" THEN 1 + ZeroRun(s, i + 1) ELSE 0

\* m.group(1): the digits after the zeros 0* takes, which gives one back when
\* the run is all zeros
MarkerGroup(s, i) ==
    LET b == i + 1 + SpaceRun(s, i + 1)
        d == DigitRun(s, b)
        z == ZeroRun(s, b)
    IN  IF z = d THEN SubSeq(s, b + d - 1, b + d - 1)
        ELSE SubSeq(s, b + z, b + d - 1)

\* clean_volume_filename(src_name, pad_to_3=True)
clean_volume_filename(src_name) ==
    LET ext   == Suffix(src_name)
        stem1 == RemoveParens(Stem(src_name))
        stem2 == Strip(CollapseSpaces(stem1))
        stem  == DropUnderscoreGroups(stem2)
        m     == MarkerPos(stem)
        title == Strip(CollapseSpaces(Strip(SubSeq(stem, 1, m - 1))))
        vpart == <<"v">> \o Pad3(ParseInt(MarkerGroup(stem, m)))
    IN  IF m # 0
        THEN IF title = <<>> THEN vpart \o ext
             ELSE title \o <<" ">> \o vpart \o ext
        ELSE stem \o ext

(***************************************************************************)
(* Configuration                                                           *)
(***************************************************************************)

FILES_PER_FOLDER == 20

VOLUME_EXTS ==
    { <<".", "c", "b", "z">>, <<".", "c", "b", "r">>,
      <<".", "c", "b", "7">>, <<".", "z", "i", "p">> }

IMAGE_EXTS ==
    { <<".", "j", "p", "g">>, <<".", "j", "p", "e", "g">>,
      <<".", "p", "n", "g">>, <<".", "w", "e", "b", "p">> }

COVER_JPG == <<"c", "o", "v", "e", "r", ".", "j", "p", "g">>

COVER_OLD_JPG == <<"c", "o", "v", "e", "r", "_", "o", "l", "d", ".", "j", "p", "g">>

COVER_CANDIDATES ==
    << COVER_JPG,
       <<"c", "o", "v", "e", "r", ".", "j", "p", "e", "g">>,
       <<"c", "o", "v", "e", "r", ".", "p", "n", "g">>,
       <<"p", "o", "s", "t", "e", "r", ".", "j", "p", "g">>,
       <<"p", "o", "s", "t", "e", "r", ".", "p", "n", "g">>,
       COVER_OLD_JPG >>

\* the absent path (a Path that is None)
None == <<<<>>, <<>>>>

(***************************************************************************)
(* The filesystem: f maps the path <<directory, name>> of every file to    *)
(* its content, a record [kind, tag]; kind is "vol" (an archive), "img" (a *)
(* readable image) or "bad" (an image file that cannot be decoded).        *)
(***************************************************************************)

\* the filesystem holding the entries <<directory, name, content>>
MakeFs(entries) ==
    [p \in { <<e[1], e[2]>> : e \in entries } |->
        (CHOOSE e \in entries : <<e[1], e[2]>> = p)[3]]

\* Path.exists()
Exists(f, dir, name) == <<dir, name>> \in DOMAIN f

\* the names series_dir.iterdir() yields that are files
FilesIn(f, dir) == { p[2] : p \in { q \in DOMAIN f : q[1] = dir } }

is_hidden_or_macos_junk(name) ==
    \/ Len(name) >= 1 /\ name[1] = "."
    \/ Len(name) >= 2 /\ name[1] = "." /\ name[2] = "_"

\* open(path, "wb") / Image.save / rename target: the file at path becomes c
WriteFile(f, dir, name, c) ==
    [p \in DOMAIN f \cup {<<dir, name>>} |->
        IF p = <<dir, name>> THEN c ELSE f[p]]

RemoveFile(f, dir, name) ==
    [p \in DOMAIN f \ {<<dir, name>>} |-> f[p]]

\* a move that copies and leaves the source in place
RenameFile_KeepsSource(f, sdir, sname, ddir, dname) ==
    WriteFile(f, ddir, dname, f[<<sdir, sname>>])

\* os.rename of a file: the destination is replaced when it exists
RenameFile(f, sdir, sname, ddir, dname) ==
    WriteFile(RemoveFile(f, sdir, sname), ddir, dname, f[<<sdir, sname>>])

(***************************************************************************)
(* Scanning and planning                                                   *)
(***************************************************************************)

\* list.sort(key=...) is stable and iterdir() lists in any order, so names
\* with equal keys come out in any order: all the orders a sort can return.
\* P holds a pair <<name, key>> for every name to sort.
RECURSIVE SortedOrders(_)
SortedOrders(P) ==
    IF P = {} THEN {<<>>}
    ELSE LET least == CHOOSE m \in P : \A x \in P : ~KeyLess(x[2], m[2])
             mins  == { m \in P : KeyEq(m[2], least[2]) }
         IN  UNION { { <<m[1]>> \o t : t \in SortedOrders(P \ {m}) } : m \in mins }

\* the lists scan_volumes(dir) can return, for a directory whose names all
\* have a key (the names of the directories modelled here do)
scan_volumes(f, dir) ==
    LET vols == { n \in FilesIn(f, dir) :
                    /\ ~is_hidden_or_macos_junk(n)
                    /\ Lower(Suffix(n)) \in VOLUME_EXTS }
    IN  SortedOrders({ <<n, natural_key_name(n)>> : n \in vols })

\* a chunk that keeps the full groups only
chunk_DropsRemainder(lst, size) ==
    [g \in 1..(Len(lst) \div size) |->
        SubSeq(lst, (g - 1) * size + 1, g * size)]

\* [lst[i:i + size] for i in range(0, len(lst), size)]
chunk(lst, size) ==
    [g \in 1..((Len(lst) + size - 1) \div size) |->
        SubSeq(lst, (g - 1) * size + 1,
               IF g * size < Len(lst) THEN g * size ELSE Len(lst))]

\* f"{stem} ({i}){ext}"
Suffixed(filename, i) ==
    Stem(filename) \o <<" ", "(">> \o Str(i) \o <<")">> \o Suffix(filename)

RECURSIVE unique_suffixed(_, _, _, _, _)
unique_suffixed(f, dest_dir, filename, reserved, i) ==
    LET candidate == Suffixed(filename, i)
    IN  IF ~Exists(f, dest_dir, candidate) /\ candidate \notin reserved
        THEN candidate
        ELSE unique_suffixed(f, dest_dir, filename, reserved, i + 1)

\* unique_path_reserved without its look at the disk
unique_path_reserved_SkipsDisk(f, dest_dir, filename, reserved) ==
    IF filename \notin reserved THEN filename
    ELSE unique_suffixed(MakeFs({}), dest_dir, filename, reserved, 2)

\* unique_path_reserved without its look at the reserved names, which is
\* unique_path
unique_path_reserved_SkipsReserved(f, dest_dir, filename, reserved) ==
    IF ~Exists(f, dest_dir, filename) THEN filename
    ELSE unique_suffixed(f, dest_dir, filename, {}, 2)

\* the name of the path unique_path_reserved returns (it adds it to reserved)
unique_path_reserved(f, dest_dir, filename, reserved) ==
    IF ~Exists(f, dest_dir, filename) /\ filename \notin reserved
    THEN filename
    ELSE unique_suffixed(f, dest_dir, filename, reserved, 2)

\* f"{series_dir.name} {idx}"
batch_dir_name(series, idx) == series \o <<" ">> \o Str(idx)

\* the inner loop of build_plan: the moves of one group from its i-th file on
RECURSIVE plan_moves(_, _, _, _, _, _)
plan_moves(f, series, batch_dir, group, i, reserved) ==
    IF i > Len(group) THEN <<>>
    ELSE LET cleaned == clean_volume_filename(group[i])
             dst     == unique_path_reserved(f, batch_dir, cleaned, reserved)
         IN  << [src |-> <<series, group[i]>>,
                 dst |-> <<batch_dir, dst>>,
                 dst_name |-> dst] >>
             \o plan_moves(f, series, batch_dir, group, i + 1, reserved \cup {dst})

\* build_plan for the scanned list vols (not empty)
build_plan(f, series, vols, series_cover) ==
    LET groups == chunk(vols, FILES_PER_FOLDER)
    IN  [idx \in 1..Len(groups) |->
            [batch_index     |-> idx,
             batch_dir       |-> batch_dir_name(series, idx),
             moves           |-> plan_moves(f, series, batch_dir_name(series, idx),
                                            groups[idx], 1, {}),
             will_make_cover |-> series_cover # None]]

(***************************************************************************)
(* Covers                                                                  *)
(***************************************************************************)

Image(tag) == [kind |-> "img", tag |-> tag]

Unreadable(tag) == [kind |-> "bad", tag |-> tag]

\* choose_series_cover: the paths it can return ({None} when there is no
\* image; several when the first images by natural order have equal keys)
choose_series_cover(f, series_dir) ==
    LET hits == { i \in 1..Len(COVER_CANDIDATES) :
                    Exists(f, series_dir, COVER_CANDIDATES[i]) }
        first == CHOOSE i \in hits : \A j \in hits : i <= j
        imgs == { n \in FilesIn(f, series_dir) :
                    /\ ~is_hidden_or_macos_junk(n)
                    /\ Lower(Suffix(n)) \in IMAGE_EXTS }
        keyed == { <<n, natural_key_name(n)>> : n \in imgs }
    IN  IF hits # {} THEN { <<series_dir, COVER_CANDIDATES[first]>> }
        ELSE IF imgs # {}
        THEN { <<series_dir, m[1]>> :
                 m \in { m \in keyed : \A x \in keyed : ~KeyLess(x[2], m[2]) } }
        ELSE { None }

\* f"cover_old_{i}.jpg"
cover_old_name(i) ==
    <<"c", "o", "v", "e", "r", "_", "o", "l", "d", "_">> \o Str(i)
        \o <<".", "j", "p", "g">>

RECURSIVE unique_cover_old_from(_, _, _)
unique_cover_old_from(f, dest_dir, i) ==
    IF ~Exists(f, dest_dir, cover_old_name(i)) THEN cover_old_name(i)
    ELSE unique_cover_old_from(f, dest_dir, i + 1)

\* unique_cover_old_path that always answers cover_old.jpg
unique_cover_old_path_AlwaysPrimary(f, dest_dir) == COVER_OLD_JPG

unique_cover_old_path(f, dest_dir) ==
    IF ~Exists(f, dest_dir, COVER_OLD_JPG) THEN COVER_OLD_JPG
    ELSE unique_cover_old_from(f, dest_dir, 2)

\* archive_existing_cover_jpg: the filesystem after it
archive_existing_cover_jpg(f, batch_dir) ==
    IF ~Exists(f, batch_dir, COVER_JPG) THEN f
    ELSE RenameFile(f, batch_dir, COVER_JPG,
                    batch_dir, unique_cover_old_path(f, batch_dir))

\* ensure_cover_old: the filesystem after it (shutil.copy2 copies the bytes,
\* readable or not)
ensure_cover_old(f, batch_dir, series_cover) ==
    IF Exists(f, batch_dir, COVER_OLD_JPG) THEN f
    ELSE WriteFile(f, batch_dir, unique_cover_old_path(f, batch_dir), f[series_cover])

\* the path ensure_cover_old returns: the base image of the numbered cover
cover_base(f, batch_dir) ==
    IF Exists(f, batch_dir, COVER_OLD_JPG) THEN COVER_OLD_JPG
    ELSE unique_cover_old_path(f, batch_dir)

\* draw_dead_center_text(im0, str(number)): the image rendered from base
Rendered(base, number) ==
    Image(<<"n", "o">> \o Str(number) \o <<" ">> \o base.tag)

\* write_numbered_cover: the filesystem after it and whether it returned
\* (Image.open raises on a base it cannot decode, after the archiving and the
\* copy)
write_numbered_cover(f, batch_dir, number, series_cover) ==
    LET f1   == archive_existing_cover_jpg(f, batch_dir)
        base == cover_base(f1, batch_dir)
        f2   == ensure_cover_old(f1, batch_dir, series_cover)
    IN  IF f2[<<batch_dir, base>>].kind = "img"
        THEN [ok |-> TRUE,
              fs |-> WriteFile(f2, batch_dir, COVER_JPG,
                               Rendered(f2[<<batch_dir, base>>], number))]
        ELSE [ok |-> FALSE, fs |-> f2]

(***************************************************************************)
(* The inputs of a run                                                     *)
(***************************************************************************)

\* how many small volume counts, and how many counts from FILES_PER_FOLDER
\* on, a run starts with
MaxSmall == 1
MaxOver == 2

VolCounts ==
    (0..MaxSmall) \cup (FILES_PER_FOLDER..(FILES_PER_FOLDER + MaxOver))

\* series_dir.name, also the title the providers are asked for
SERIES == <<"s">>

CBZ == <<".", "c", "b", "z">>

VolName(i) == <<"v">> \o Str(i) \o CBZ

\* volumes a small directory may hold besides v1.cbz .. vN.cbz: one with the
\* sort key and the clean name of v1.cbz, and a first volume that is no zip
ExtraVolumes ==
    { <<"v", "0", "1">> \o CBZ, <<"v", "0", ".", "c", "b", "r">> }

Volume(name) == [kind |-> "vol", tag |-> name]

\* entries scan_volumes and choose_series_cover must skip
Junk ==
    { <<<<".", "v", "9">> \o CBZ, Volume(<<".", "v", "9">> \o CBZ)>>,
      <<<<"n", ".", "t", "x", "t">>, [kind |-> "txt", tag |-> <<>>]>> }

POSTER_PNG == <<"p", "o", "s", "t", "e", "r", ".", "p", "n", "g">>

\* the images the series directory may hold at the start
SeriesCovers ==
    { {},
      { <<COVER_JPG, Image(<<"local">>)>> },
      { <<POSTER_PNG, Image(<<"poster">>)>> },
      { <<POSTER_PNG, Unreadable(<<"poster">>)>> },
      { <<<<"a", ".", "w", "e", "b", "p">>, Image(<<"a">>)>>,
        <<<<"A", ".", "w", "e", "b", "p">>, Image(<<"A">>)>> } }

\* what the first batch directory may be at the start: absent, or left by an
\* earlier run
BatchContents ==
    { [dir |-> FALSE, files |-> {}],
      [dir |-> TRUE,
       files |-> { <<<<"v", "0", "0", "1">> \o CBZ, Volume(<<"o", "l", "d">>)>>,
                   <<COVER_JPG, Image(<<"prev">>)>> }],
      [dir |-> TRUE,
       files |-> { <<COVER_JPG, Image(<<"prev">>)>>,
                   <<COVER_OLD_JPG, Image(<<"base">>)>> }],
      [dir |-> TRUE,
       files |-> { <<COVER_OLD_JPG, Unreadable(<<"base">>)>> }] }

\* what zipfile finds in the first volume: a first image entry, no image
\* entry, or no zip directory at all (zipfile.ZipFile raises)
ZipKinds == {"image", "noimage", "notazip"}

\* what the user may type at the prompt
Answers ==
    { <<"y">>, <<" ", "Y", "e", "s">>, <<"n">>, <<>> }

InitialFs(n, extra, covers, batch) ==
    MakeFs( { <<SERIES, VolName(i), Volume(VolName(i))>> : i \in 1..n }
            \cup { <<SERIES, x, Volume(x)>> : x \in extra }
            \cup { <<SERIES, e[1], e[2]>> : e \in Junk \cup covers }
            \cup { <<batch_dir_name(SERIES, 1), e[1], e[2]>> : e \in batch.files } )

(***************************************************************************)
(* The run of main                                                         *)
(***************************************************************************)

VARIABLES
    fs,             \* the files
    dirs,           \* the directories that exist (children of the parent)
    show_cover,     \* args.show_cover
    pc,             \* where main is
    status,         \* "running", the exit status, or "raised"
    first_vol,      \* ensure_series_cover: first_vol_cover.volume_file, or <<>>
    first_vol_err,  \* ensure_series_cover: first_vol_err
    fi,             \* find_remote_cover: the next fetcher
    res,            \* ensure_series_cover: the provider of res, or "none"
    last_err,       \* ensure_series_cover: last_err
    ret,            \* ensure_series_cover: the value it returns
    series_cover,   \* main: series_cover
    plan,           \* main: plan
    answer,         \* confirm: ans
    confirmed,      \* main: what confirm returned ("unasked" before)
    exc,            \* the call that raised out of main: "none", "move", "cover"
    run,            \* the number of this run of main on the directory
    bi,             \* execute: the batch
    mi,             \* execute: the move
    fs0,            \* history: the files at the start
    dirs0,          \* history: the directories at the start
    stages,         \* history: the stages ensure_series_cover tried so far
    queried,        \* history: the providers it asked, with what each gave
    returned,       \* history: ensure_series_cover has returned
    overwrote,      \* history: a move replaced an existing file
    arg,            \* the names given to a function called on its own
    got,            \* what it returned, call after call
    action,         \* the action the browser UI runs, "none" without the UI
    argv,           \* the options on the command line of process_manga.py
    running,        \* SharedState.running
    ui_status,      \* SharedState.status
    current_action, \* SharedState.current_action
    last_exit_code, \* SharedState.last_exit_code, "none" for None
    cover_path,     \* SharedState.cover_path, "none" for None
    version,        \* SharedState.version
    log_entries,    \* SharedState.log_entries: <<version, text>> pairs
    thread_lock,    \* UIController._thread_lock: its holder, 0 when free
    req,            \* the threads serving POST /api/run: where each one is
    worker,         \* the worker threads: where each one is
    stateVersion,   \* the page: stateVersion
    poll,           \* the page: the pollState in flight
    delivered,      \* history: the versions of the lines the page was given
    logged,         \* history: the versions of the lines appended
    dropped         \* history: the versions trimmed or cleared from the log

ctlVars ==
    << running, ui_status, current_action, last_exit_code, cover_path, version,
       log_entries, thread_lock, req, worker, stateVersion, poll, delivered,
       logged, dropped >>

\* the browser UI is not running
CtlIdle ==
    /\ running = FALSE
    /\ ui_status = "Idle"
    /\ current_action = ""
    /\ last_exit_code = "none"
    /\ cover_path = "none"
    /\ version = 0
    /\ log_entries = <<>>
    /\ thread_lock = 0
    /\ req = <<>>
    /\ worker = <<>>
    /\ stateVersion = 0
    /\ poll = [pc |-> "idle"]
    /\ delivered = <<>>
    /\ logged = <<>>
    /\ dropped = {}

vars ==
    << fs, dirs, show_cover, pc, status, first_vol, first_vol_err, fi, res,
       last_err, ret, series_cover, plan, answer, confirmed, exc, run, bi, mi,
       fs0, dirs0, stages, queried, returned, overwrote, arg, got,
       action, argv, ctlVars >>

inputs == << show_cover, fs0, dirs0, run, arg, got, action, argv, ctlVars >>

coverVars == << first_vol, first_vol_err, fi, res, last_err, ret, stages, queried >>

mainVars == << series_cover, returned >>

execVars == << plan, answer, confirmed, exc, bi, mi, overwrote >>

Init ==
    /\ \E isdir \in BOOLEAN, n \in VolCounts, extra \in SUBSET ExtraVolumes,
          covers \in SeriesCovers, batch \in BatchContents :
          /\ isdir \/ (n = 0 /\ extra = {} /\ covers = {} /\ ~batch.dir)
          /\ n <= MaxSmall \/ extra = {}
          /\ fs = IF isdir THEN InitialFs(n, extra, covers, batch) ELSE MakeFs({})
          /\ dirs = (IF isdir THEN {SERIES} ELSE {})
                      \cup (IF batch.dir THEN {batch_dir_name(SERIES, 1)} ELSE {})
    /\ show_cover \in BOOLEAN
    /\ pc = "start"
    /\ status = "running"
    /\ first_vol = <<>>
    /\ first_vol_err = "none"
    /\ fi = 1
    /\ res = "none"
    /\ last_err = "none"
    /\ ret = None
    /\ series_cover = None
    /\ plan = <<>>
    /\ answer = <<>>
    /\ confirmed = "unasked"
    /\ exc = "none"
    /\ run = 1
    /\ bi = 1
    /\ mi = 1
    /\ fs0 = fs
    /\ dirs0 = dirs
    /\ stages = <<>>
    /\ queried = <<>>
    /\ returned = FALSE
    /\ overwrote = FALSE
    /\ arg = <<>>
    /\ got = <<>>
    /\ action = "none"
    /\ argv = IF show_cover THEN <<"--show-cover">> ELSE <<>>
    /\ CtlIdle

\* main, up to the call of ensure_series_cover
Start ==
    /\ pc = "start"
    /\ IF SERIES \notin dirs
       THEN pc' = "done" /\ status' = "exit2"
       ELSE pc' = "find_first" /\ status' = status
    /\ UNCHANGED << fs, dirs, inputs, coverVars, mainVars, execVars >>

\* find_first_volume_cover for the scanned list vols and what zipfile finds
FirstVolume(vols, zip) ==
    IF vols = <<>> THEN [vol |-> <<>>, err |-> "none"]
    ELSE IF Lower(Suffix(vols[1])) \notin {CBZ, <<".", "z", "i", "p">>}
    THEN [vol |-> <<>>, err |-> "unsupported"]
    ELSE IF zip = "notazip" THEN [vol |-> <<>>, err |-> "badzip"]
    ELSE IF zip = "noimage" THEN [vol |-> <<>>, err |-> "noimage"]
    ELSE [vol |-> vols[1], err |-> "none"]

\* ensure_series_cover: find_first_volume_cover
FindFirstVolumeCover ==
    /\ pc = "find_first"
    /\ \E vols \in scan_volumes(fs, SERIES), zip \in ZipKinds :
          /\ first_vol' = FirstVolume(vols, zip).vol
          /\ first_vol_err' = FirstVolume(vols, zip).err
          /\ pc' = IF FirstVolume(vols, zip).vol # <<>> THEN "write_vol" ELSE "choose"
    /\ stages' = Append(stages, [stage |-> "extract", result |-> None])
    /\ UNCHANGED << fs, dirs, inputs, status, fi, res, last_err, ret, queried,
                    mainVars, execVars >>

\* write_volume_cover without the return that follows it
WriteVolumeCover_FallsThrough ==
    /\ pc = "write_vol"
    /\ fs' = WriteFile(fs, SERIES, COVER_JPG, Image(<<"first image of ">> \o first_vol))
    /\ stages' = [stages EXCEPT ![1].result = <<SERIES, COVER_JPG>>]
    /\ ret' = <<SERIES, COVER_JPG>>
    /\ pc' = "choose"
    /\ UNCHANGED << dirs, inputs, status, first_vol, first_vol_err, fi, res,
                    last_err, queried, mainVars, execVars >>

\* ensure_series_cover: write_volume_cover in its try block; Image.open or
\* convert raises on an entry it cannot decode, before save opens cover.jpg
WriteVolumeCover ==
    /\ pc = "write_vol"
    /\ \E decoded \in BOOLEAN :
          IF decoded
          THEN /\ fs' = WriteFile(fs, SERIES, COVER_JPG,
                                  Image(<<"first image of ">> \o first_vol))
               /\ stages' = [stages EXCEPT ![1].result = <<SERIES, COVER_JPG>>]
               /\ ret' = <<SERIES, COVER_JPG>>
               /\ pc' = "cover_return"
               /\ UNCHANGED first_vol_err
          ELSE /\ first_vol_err' = "decode"
               /\ pc' = "choose"
               /\ UNCHANGED << fs, stages, ret >>
    /\ UNCHANGED << dirs, inputs, status, first_vol, fi, res, last_err, queried,
                    mainVars, execVars >>

\* ensure_series_cover: choose_series_cover
ChooseSeriesCover ==
    /\ pc = "choose"
    /\ \E existing \in choose_series_cover(fs, SERIES) :
          /\ stages' = Append(stages, [stage |-> "local", result |-> existing])
          /\ ret' = existing
          /\ pc' = IF existing # None THEN "cover_return" ELSE "fetch"
    /\ UNCHANGED << fs, dirs, inputs, status, first_vol, first_vol_err, fi, res,
                    last_err, queried, mainVars, execVars >>

\* the fetchers of find_remote_cover, in its order
Fetchers == <<"mangadex", "anilist", "kitsu">>

\* what a provider can do: return a result, return None, raise
FetchOutcomes == {"result", "nothing", "raises"}

\* the loop of find_remote_cover without its try: a provider that raises
\* ends the search
Fetch_RaiseEndsLoop ==
    /\ pc = "fetch"
    /\ \E out \in FetchOutcomes :
          /\ queried' = Append(queried, [provider |-> Fetchers[fi], outcome |-> out])
          /\ IF out = "result"
             THEN /\ res' = Fetchers[fi]
                  /\ last_err' = "none"
                  /\ pc' = "download"
                  /\ fi' = fi
             ELSE /\ last_err' = IF out = "raises" THEN Fetchers[fi] ELSE last_err
                  /\ res' = res
                  /\ IF fi < Len(Fetchers) /\ out # "raises"
                     THEN fi' = fi + 1 /\ pc' = pc
                     ELSE fi' = fi /\ pc' = "cover_return"
    /\ stages' = IF fi = 1 THEN Append(stages, [stage |-> "remote", result |-> None])
                 ELSE stages
    /\ UNCHANGED << fs, dirs, inputs, status, first_vol, first_vol_err, ret,
                    mainVars, execVars >>

\* one turn of the loop of find_remote_cover; when the loop ends without a
\* result, ensure_series_cover warns and returns None
Fetch ==
    /\ pc = "fetch"
    /\ \E out \in FetchOutcomes :
          /\ queried' = Append(queried, [provider |-> Fetchers[fi], outcome |-> out])
          /\ IF out = "result"
             THEN /\ res' = Fetchers[fi]
                  /\ last_err' = "none"
                  /\ pc' = "download"
                  /\ fi' = fi
             ELSE /\ last_err' = IF out = "raises" THEN Fetchers[fi] ELSE last_err
                  /\ res' = res
                  /\ IF fi < Len(Fetchers)
                     THEN fi' = fi + 1 /\ pc' = pc
                     ELSE fi' = fi /\ pc' = "cover_return"
    /\ stages' = IF fi = 1 THEN Append(stages, [stage |-> "remote", result |-> None])
                 ELSE stages
    /\ UNCHANGED << fs, dirs, inputs, status, first_vol, first_vol_err, ret,
                    mainVars, execVars >>

\* what _download_file can do: write the whole file, raise before it opens
\* the file, raise after it has written part of it
DownloadOutcomes == {"ok", "refused", "broken"}

\* ensure_series_cover: _download_file in its try block
DownloadFile ==
    /\ pc = "download"
    /\ \E out \in DownloadOutcomes :
          IF out = "ok"
          THEN /\ fs' = WriteFile(fs, SERIES, COVER_JPG, Image(<<res>>))
               /\ stages' = [stages EXCEPT ![Len(stages)].result = <<SERIES, COVER_JPG>>]
               /\ ret' = <<SERIES, COVER_JPG>>
               /\ UNCHANGED last_err
          ELSE /\ fs' = IF out = "broken"
                        THEN WriteFile(fs, SERIES, COVER_JPG, Unreadable(<<"part">>))
                        ELSE fs
               /\ last_err' = "download"
               /\ UNCHANGED << stages, ret >>
    /\ pc' = "cover_return"
    /\ UNCHANGED << dirs, inputs, status, first_vol, first_vol_err, fi, res,
                    queried, mainVars, execVars >>

\* ensure_series_cover returns ret to main; its locals are gone
ReturnCover ==
    /\ pc = "cover_return"
    /\ series_cover' = ret
    /\ returned' = TRUE
    /\ pc' = IF show_cover THEN "show" ELSE "plan"
    /\ first_vol' = <<>>
    /\ first_vol_err' = "none"
    /\ fi' = 1
    /\ res' = "none"
    /\ last_err' = "none"
    /\ ret' = None
    /\ stages' = <<>>
    /\ queried' = <<>>
    /\ UNCHANGED << fs, dirs, inputs, status, execVars >>

\* main with --show-cover, after ensure_series_cover: ensure_cover_jpg
\* (Image.open raises on a file it cannot decode) and open_image (the viewer
\* may fail)
ShowCover ==
    /\ pc = "show"
    /\ pc' = "done"
    /\ IF series_cover = None
       THEN status' = "exit1" /\ fs' = fs
       ELSE IF series_cover # <<SERIES, COVER_JPG>> /\ fs[series_cover].kind # "img"
       THEN status' = "exit1" /\ fs' = fs
       ELSE /\ fs' = IF series_cover = <<SERIES, COVER_JPG>> THEN fs
                     ELSE WriteFile(fs, SERIES, COVER_JPG,
                                    Image(<<"jpeg of ">> \o fs[series_cover].tag))
            /\ \E opened \in BOOLEAN :
                  status' = IF opened THEN "exit0" ELSE "exit1"
    /\ UNCHANGED << dirs, inputs, coverVars, mainVars, execVars >>

\* a build_plan that creates the batch directories it plans for
BuildPlan_CreatesBatchDirs ==
    /\ pc = "plan"
    /\ \E vols \in scan_volumes(fs, SERIES) :
          IF vols = <<>>
          THEN pc' = "done" /\ status' = "exit2" /\ plan' = plan /\ dirs' = dirs
          ELSE /\ plan' = build_plan(fs, SERIES, vols, series_cover)
               /\ dirs' = dirs \cup { plan'[b].batch_dir : b \in 1..Len(plan') }
               /\ pc' = "confirm"
               /\ status' = status
    /\ UNCHANGED << fs, inputs, coverVars, mainVars, answer, confirmed, exc,
                    bi, mi, overwrote >>

\* main returning 0 when build_plan raises
BuildPlan_FailureReturns0 ==
    /\ pc = "plan"
    /\ \E vols \in scan_volumes(fs, SERIES) :
          IF vols = <<>>
          THEN pc' = "done" /\ status' = "exit0" /\ plan' = plan
          ELSE /\ plan' = build_plan(fs, SERIES, vols, series_cover)
               /\ pc' = "confirm"
               /\ status' = status
    /\ UNCHANGED << fs, dirs, inputs, coverVars, mainVars, answer, confirmed, exc,
                    bi, mi, overwrote >>

\* main: build_plan in its try block, then print_plan
BuildPlan ==
    /\ pc = "plan"
    /\ \E vols \in scan_volumes(fs, SERIES) :
          IF vols = <<>>
          THEN pc' = "done" /\ status' = "exit2" /\ plan' = plan
          ELSE /\ plan' = build_plan(fs, SERIES, vols, series_cover)
               /\ pc' = "confirm"
               /\ status' = status
    /\ UNCHANGED << fs, dirs, inputs, coverVars, mainVars, answer, confirmed, exc,
                    bi, mi, overwrote >>

\* a confirm that takes the empty answer for a yes
confirm_EmptyIsYes(ans) == Lower(Strip(ans)) \in { <<"y">>, <<"y", "e", "s">>, <<>> }

\* confirm: the value it returns for the answer ans
confirm(ans) == Lower(Strip(ans)) \in { <<"y">>, <<"y", "e", "s">> }

\* confirm: input(prompt)
Confirm ==
    /\ pc = "confirm"
    /\ \E ans \in Answers : answer' = ans
    /\ pc' = "answered"
    /\ UNCHANGED << fs, dirs, inputs, status, coverVars, mainVars, plan, confirmed,
                    exc, bi, mi, overwrote >>

\* main: if not confirm(...): return 0; otherwise execute starts
Answered ==
    /\ pc = "answered"
    /\ IF confirm(answer)
       THEN pc' = "exec_dir" /\ status' = status /\ answer' = <<>>
            /\ confirmed' = "yes"
       ELSE pc' = "done" /\ status' = "exit0" /\ answer' = answer
            /\ confirmed' = "no"
    /\ UNCHANGED << fs, dirs, inputs, coverVars, mainVars, plan, exc, bi, mi,
                    overwrote >>

\* execute: ensure_dir(b.batch_dir)
EnsureBatchDir ==
    /\ pc = "exec_dir"
    /\ dirs' = dirs \cup {plan[bi].batch_dir}
    /\ mi' = 1
    /\ pc' = "exec_move"
    /\ UNCHANGED << fs, inputs, status, coverVars, mainVars, plan, answer,
                    confirmed, exc, bi, overwrote >>

\* execute, after the last statement of the body of its loop over the plan;
\* after the loop main returns 0
NextBatch ==
    IF bi < Len(plan)
    THEN bi' = bi + 1 /\ pc' = "exec_dir" /\ status' = status
    ELSE bi' = bi /\ pc' = "done" /\ status' = "exit0"

\* execute with the cover rendered after the first move of a batch
MoveFile_CoverAfterFirstMove ==
    /\ pc = "exec_move"
    /\ LET mv == plan[bi].moves[mi]
       IN  /\ fs' = RenameFile(fs, mv.src[1], mv.src[2], mv.dst[1], mv.dst[2])
           /\ overwrote' = (overwrote \/ Exists(fs, mv.dst[1], mv.dst[2]))
    /\ mi' = mi
    /\ IF series_cover # None
       THEN pc' = "exec_cover" /\ UNCHANGED << bi, status >>
       ELSE NextBatch
    /\ UNCHANGED << dirs, inputs, coverVars, mainVars, plan, answer, confirmed, exc >>

\* execute: shutil.move of one planned move
MoveFile ==
    /\ pc = "exec_move"
    /\ LET mv == plan[bi].moves[mi]
       IN  /\ fs' = RenameFile(fs, mv.src[1], mv.src[2], mv.dst[1], mv.dst[2])
           /\ overwrote' = (overwrote \/ Exists(fs, mv.dst[1], mv.dst[2]))
    /\ IF mi < Len(plan[bi].moves)
       THEN mi' = mi + 1 /\ UNCHANGED << pc, bi, status >>
       ELSE /\ mi' = mi
            /\ IF series_cover # None
               THEN pc' = "exec_cover" /\ UNCHANGED << bi, status >>
               ELSE NextBatch
    /\ UNCHANGED << dirs, inputs, coverVars, mainVars, plan, answer, confirmed, exc >>

\* a failed move that execute reports and steps over
MoveFails_SkipsTheMove ==
    /\ pc = "exec_move"
    /\ exc' = "move"
    /\ IF mi < Len(plan[bi].moves)
       THEN mi' = mi + 1 /\ UNCHANGED << pc, status >>
       ELSE mi' = mi /\ pc' = "done" /\ status' = "raised"
    /\ UNCHANGED << fs, dirs, inputs, coverVars, mainVars, plan, answer, confirmed,
                    bi, overwrote >>

\* execute: shutil.move raises (permissions, a full disk, another device)
MoveFails ==
    /\ pc = "exec_move"
    /\ pc' = "done"
    /\ status' = "raised"
    /\ exc' = "move"
    /\ UNCHANGED << fs, dirs, inputs, coverVars, mainVars, plan, answer, confirmed,
                    bi, mi, overwrote >>

\* execute: write_numbered_cover for the batch
WriteNumberedCover ==
    /\ pc = "exec_cover"
    /\ LET w == write_numbered_cover(fs, plan[bi].batch_dir,
                                     plan[bi].batch_index, series_cover)
       IN  /\ fs' = w.fs
           /\ IF w.ok THEN NextBatch /\ exc' = exc
              ELSE pc' = "done" /\ status' = "raised" /\ bi' = bi /\ exc' = "cover"
    /\ UNCHANGED << dirs, inputs, coverVars, mainVars, plan, answer, confirmed, mi,
                    overwrote >>

\* main is run again on the same directory, after a run that executed its
\* whole plan
Rerun ==
    /\ pc = "done"
    /\ run = 1
    /\ status = "exit0"
    /\ confirmed = "yes"
    /\ run' = 2
    /\ pc' = "start"
    /\ status' = "running"
    /\ series_cover' = None
    /\ returned' = FALSE
    /\ plan' = <<>>
    /\ answer' = <<>>
    /\ confirmed' = "unasked"
    /\ bi' = 1
    /\ mi' = 1
    /\ overwrote' = FALSE
    /\ fs0' = fs
    /\ dirs0' = dirs
    /\ UNCHANGED << fs, dirs, show_cover, coverVars, exc, arg, got,
                    action, argv, ctlVars >>

Next ==
    \/ Start
    \/ FindFirstVolumeCover
    \/ WriteVolumeCover
    \/ ChooseSeriesCover
    \/ Fetch
    \/ DownloadFile
    \/ ReturnCover
    \/ ShowCover
    \/ BuildPlan
    \/ Confirm
    \/ Answered
    \/ EnsureBatchDir
    \/ MoveFile
    \/ MoveFails
    \/ WriteNumberedCover
    \/ Rerun

Spec == Init /\ [][Next]_vars

(***************************************************************************)
(* Planning alone: build_plan and the prompt, from a directory of up to    *)
(* MaxPlanVols volumes for which no cover was found                        *)
(***************************************************************************)

MaxPlanVols == 45

PlanInit ==
    /\ \E n \in 0..MaxPlanVols, extra \in {{}, ExtraVolumes}, batch \in BatchContents :
          /\ fs = InitialFs(n, extra, {}, batch)
          /\ dirs = {SERIES}
                      \cup (IF batch.dir THEN {batch_dir_name(SERIES, 1)} ELSE {})
    /\ show_cover = FALSE
    /\ pc = "plan"
    /\ status = "running"
    /\ first_vol = <<>>
    /\ first_vol_err = "none"
    /\ fi = 1
    /\ res = "none"
    /\ last_err = "none"
    /\ ret = None
    /\ series_cover = None
    /\ plan = <<>>
    /\ answer = <<>>
    /\ confirmed = "unasked"
    /\ exc = "none"
    /\ run = 1
    /\ bi = 1
    /\ mi = 1
    /\ fs0 = fs
    /\ dirs0 = dirs
    /\ stages = <<>>
    /\ queried = <<>>
    /\ returned = TRUE
    /\ overwrote = FALSE
    /\ arg = <<>>
    /\ got = <<>>
    /\ action = "none"
    /\ argv = <<>>
    /\ CtlIdle

PlanNext == BuildPlan \/ Confirm

PlanSpec == PlanInit /\ [][PlanNext]_vars

(***************************************************************************)
(* Covers alone: write_numbered_cover called again and again on one batch  *)
(* directory, as successive runs call it                                   *)
(***************************************************************************)

\* how many calls, and the largest batch number passed
MaxCalls == 3
MaxNumber == 2

BATCH == batch_dir_name(SERIES, 1)

\* what the batch directory may hold before the first call
CoverDirContents ==
    { c \cup o \cup o2 :
        c  \in { {}, { <<COVER_JPG, Image(<<"prev">>)>> },
                     { <<COVER_JPG, Unreadable(<<"prev">>)>> } },
        o  \in { {}, { <<COVER_OLD_JPG, Image(<<"base">>)>> },
                     { <<COVER_OLD_JPG, Unreadable(<<"base">>)>> } },
        o2 \in { {}, { <<cover_old_name(2), Image(<<"old2">>)>> } } }

CoverInit ==
    /\ \E held \in CoverDirContents,
          cover \in { <<COVER_JPG, Image(<<"local">>)>>,
                      <<POSTER_PNG, Unreadable(<<"poster">>)>> } :
          /\ fs = MakeFs( { <<SERIES, cover[1], cover[2]>> }
                          \cup { <<BATCH, e[1], e[2]>> : e \in held } )
          /\ series_cover = <<SERIES, cover[1]>>
    /\ dirs = {SERIES, BATCH}
    /\ show_cover = FALSE
    /\ pc = "cover_call"
    /\ status = "running"
    /\ first_vol = <<>>
    /\ first_vol_err = "none"
    /\ fi = 1
    /\ res = "none"
    /\ last_err = "none"
    /\ ret = None
    /\ plan = <<>>
    /\ answer = <<>>
    /\ confirmed = "yes"
    /\ exc = "none"
    /\ run = 1
    /\ bi = 1
    /\ mi = 0
    /\ fs0 = fs
    /\ dirs0 = dirs
    /\ stages = <<>>
    /\ queried = <<>>
    /\ returned = TRUE
    /\ overwrote = FALSE
    /\ arg = <<>>
    /\ got = <<>>
    /\ action = "none"
    /\ argv = <<>>
    /\ CtlIdle

\* write_numbered_cover(BATCH, number, series_cover); mi counts the calls,
\* bi is the number of the last one, exc tells whether it raised
CallWriteNumberedCover ==
    /\ pc = "cover_call"
    /\ mi < MaxCalls
    /\ \E number \in 1..MaxNumber :
          LET w == write_numbered_cover(fs, BATCH, number, series_cover)
          IN  /\ fs' = w.fs
              /\ exc' = IF w.ok THEN "none" ELSE "cover"
              /\ bi' = number
    /\ mi' = mi + 1
    /\ UNCHANGED << dirs, inputs, status, pc, coverVars, mainVars, plan, answer,
                    confirmed, overwrote >>

CoverNext == CallWriteNumberedCover

CoverSpec == CoverInit /\ [][CoverNext]_vars

(***************************************************************************)
(* clean_volume_filename alone, applied to a name and then to its result   *)
(***************************************************************************)

\* the pieces names are made of, and how many a name has at most
NameTokens ==
    { <<"a">>, <<" ">>, <<"(", "b", ")">>, <<".">>, <<"v">>, <<"V">>,
      <<"0">>, <<"7">>, <<"_", "1">>, <<"x", "v", "7", "_", "1">>, CBZ }

MaxTokens == 4

RECURSIVE NamesOf(_)
NamesOf(k) ==
    IF k = 0 THEN { <<>> }
    ELSE LET shorter == NamesOf(k - 1)
         IN  shorter \cup { n \o t : n \in shorter, t \in NameTokens }

\* the names a directory entry can have
FileNames == NamesOf(MaxTokens) \ { <<>>, <<".">>, <<".", ".">> }

\* the state of a run of one function: nothing of main has happened
MainIdle ==
    /\ fs = MakeFs({})
    /\ dirs = {}
    /\ show_cover = FALSE
    /\ status = "running"
    /\ first_vol = <<>>
    /\ first_vol_err = "none"
    /\ fi = 1
    /\ res = "none"
    /\ last_err = "none"
    /\ ret = None
    /\ series_cover = None
    /\ plan = <<>>
    /\ answer = <<>>
    /\ confirmed = "unasked"
    /\ exc = "none"
    /\ run = 1
    /\ bi = 1
    /\ mi = 1
    /\ fs0 = fs
    /\ dirs0 = dirs
    /\ stages = <<>>
    /\ queried = <<>>
    /\ returned = FALSE
    /\ overwrote = FALSE
    /\ action = "none"
    /\ argv = <<>>

\* neither main nor the browser UI is running
Idle == MainIdle /\ CtlIdle

CleanInit ==
    /\ Idle
    /\ pc = "clean"
    /\ \E x \in FileNames : arg = <<x>>
    /\ got = <<>>

\* clean_volume_filename(arg), then clean_volume_filename of what it gave
CleanName ==
    /\ pc = "clean"
    /\ Len(got) < 2
    /\ got' = Append(got, clean_volume_filename(
                              IF got = <<>> THEN arg[1] ELSE got[Len(got)]))
    /\ UNCHANGED << fs, dirs, show_cover, pc, status, fs0, dirs0, run, arg,
                    action, argv, ctlVars, coverVars, mainVars, execVars >>

CleanNext == CleanName

CleanSpec == CleanInit /\ [][CleanNext]_vars

(***************************************************************************)
(* natural_key_name alone: the keys of two names and their comparison, as  *)
(* list.sort(key=natural_key_path) makes it                                *)
(***************************************************************************)

\* the pieces the two names are made of, and how many a name has at most
KeyTokens == { <<"a">>, <<"A">>, <<"0">>, <<"1">>, <<"2">>, <<"^2">> }

MaxKeyTokens == 3

RECURSIVE KeyNamesOf(_)
KeyNamesOf(k) ==
    IF k = 0 THEN { <<>> }
    ELSE LET shorter == KeyNamesOf(k - 1)
         IN  shorter \cup { n \o t : n \in shorter, t \in KeyTokens }

KeyNames == KeyNamesOf(MaxKeyTokens) \ { <<>> }

KeyInit ==
    /\ Idle
    /\ pc = "key"
    /\ \E x \in KeyNames, y \in KeyNames : arg = <<x, y>>
    /\ got = <<>>

\* the keys of the two names, then key(x) < key(y) and key(x) == key(y) as
\* the sort evaluates them; a ValueError of int() leaves natural_key_name
KeyCompare ==
    /\ pc = "key"
    /\ pc' = "done"
    /\ IF natural_key_raises(arg[1]) \/ natural_key_raises(arg[2])
       THEN /\ exc' = "ValueError"
            /\ got' = got
       ELSE /\ exc' = exc
            /\ got' = << natural_key_name(arg[1]), natural_key_name(arg[2]),
                         IF KeyLess(natural_key_name(arg[1]), natural_key_name(arg[2]))
                         THEN "less"
                         ELSE IF KeyEq(natural_key_name(arg[1]), natural_key_name(arg[2]))
                         THEN "equal" ELSE "greater" >>
    /\ UNCHANGED << fs, dirs, show_cover, status, fs0, dirs0, run, arg, action,
                    argv, ctlVars, coverVars, mainVars, plan, answer, confirmed, bi, mi,
                    overwrote >>

KeyNext == KeyCompare

KeySpec == KeyInit /\ [][KeyNext]_vars

(***************************************************************************)
(* fit_font_size alone: the binary search over the font sizes, for images  *)
(* of up to MaxSide by MaxSide pixels and labels of one or two characters  *)
(***************************************************************************)

MaxSide == 16

\* the fonts pick_font can return: two TrueType faces that scale with the
\* size, and the bitmap font of ImageFont.load_default(), which does not
Fonts == {"narrow", "wide", "default"}

\* draw.textbbox((0, 0), text, font=pick_font(size)): width and height of a
\* label of n characters (they grow with the size, or stay as they are)
textbbox(font, n, size) ==
    IF font = "narrow" THEN [tw |-> (5 * n * size) \div 10, th |-> (7 * size) \div 10]
    ELSE IF font = "wide" THEN [tw |-> (7 * n * size) \div 10, th |-> size]
    ELSE [tw |-> 6 * n, th |-> 11]

\* int(w * (1 - 2 * margin_frac)) for the margin_frac of 0.06 every call uses
MaxSpan(w) == (w * 88) \div 100

\* tw <= max_w and th <= max_h
Fits(w, h, n, font, size) ==
    /\ textbbox(font, n, size).tw <= MaxSpan(w)
    /\ textbbox(font, n, size).th <= MaxSpan(h)

Max2(a, b) == IF a >= b THEN a ELSE b

\* lo, hi, best = 10, max(w, h) * 5, lo
fit_start(w, h) == [lo |-> 10, hi |-> Max2(w, h) * 5, best |-> 10]

\* a search that goes down when the size fits
fit_step_SearchesDown(w, h, n, font, st) ==
    LET mid == (st.lo + st.hi) \div 2
    IN  IF Fits(w, h, n, font, mid)
        THEN [lo |-> st.lo, hi |-> mid - 1, best |-> mid]
        ELSE [lo |-> st.lo, hi |-> mid - 1, best |-> st.best]

\* the body of the loop of fit_font_size
fit_step(w, h, n, font, st) ==
    LET mid == (st.lo + st.hi) \div 2
    IN  IF Fits(w, h, n, font, mid)
        THEN [lo |-> mid + 1, hi |-> st.hi, best |-> mid]
        ELSE [lo |-> st.lo, hi |-> mid - 1, best |-> st.best]

FitInit ==
    /\ Idle
    /\ pc = "fit"
    /\ \E w \in 1..MaxSide, h \in 1..MaxSide, n \in 1..2, font \in Fonts :
          /\ arg = <<w, h, n, font>>
          /\ got = <<fit_start(w, h)>>

\* while lo <= hi: one turn of the loop
FitStep ==
    /\ pc = "fit"
    /\ got[1].lo <= got[1].hi
    /\ got' = <<fit_step(arg[1], arg[2], arg[3], arg[4], got[1])>>
    /\ UNCHANGED << fs, dirs, show_cover, pc, status, fs0, dirs0, run, arg,
                    action, argv, ctlVars, coverVars, mainVars, execVars >>

\* return best
FitReturn ==
    /\ pc = "fit"
    /\ got[1].lo > got[1].hi
    /\ pc' = "fit_done"
    /\ got' = <<got[1].best>>
    /\ UNCHANGED << fs, dirs, show_cover, status, fs0, dirs0, run, arg,
                    action, argv, ctlVars, coverVars, mainVars, execVars >>

FitNext == FitStep \/ FitReturn

FitSpec == FitInit /\ [][FitNext]_vars

(***************************************************************************)
(* The controller of the browser UI: the threads that serve POST /api/run  *)
(* call run_action, which starts a worker thread under _thread_lock; the   *)
(* worker runs the subprocess, logs its output and calls finish_action.    *)
(* Every method of SharedState runs under SharedState.lock, so each is one *)
(* step.                                                                   *)
(***************************************************************************)

\* the actions run_action takes
UIActions == {"show_cover", "preview", "process"}

\* threads serving /api/run at once, worker threads that can be started,
\* lines a subprocess prints at most
MaxRequests == 2
MaxWorkers == 2
MaxLines == 1

\* the length append_log trims the log to (6000 in the program)
MAX_LOG_LINES == 3

Requests == 1..MaxRequests

Workers == 1..MaxWorkers

\* the lines _run_action_worker logs before it starts the subprocess
HeaderLines == 4

\* the log after the trim of append_log
Trimmed(entries) ==
    IF Len(entries) > MAX_LOG_LINES
    THEN SubSeq(entries, Len(entries) - MAX_LOG_LINES + 1, Len(entries))
    ELSE entries

\* SharedState.append_log(text)
AppendLog(text) ==
    /\ version' = version + 1
    /\ log_entries' = Trimmed(Append(log_entries, <<version + 1, text>>))

IdleRequest == [pc |-> "idle", action |-> "", reply |-> "none"]

Unborn == [pc |-> "unborn", action |-> "", n |-> 0, rc |-> "none"]

\* a worker thread that has returned
Done == [pc |-> "done", action |-> "", n |-> 0, rc |-> "none"]

\* the page and the histories of the log at the start
PageIdle ==
    /\ stateVersion = 0
    /\ poll = [pc |-> "idle"]
    /\ delivered = <<>>

\* UIController.__init__, with or without an initial folder
CtlInit ==
    /\ MainIdle
    /\ pc = "ui"
    /\ arg = <<>>
    /\ got = <<>>
    /\ running = FALSE
    /\ ui_status = "Idle"
    /\ current_action = ""
    /\ last_exit_code = "none"
    /\ cover_path = "none"
    /\ \E folder \in BOOLEAN :
          /\ version = IF folder THEN 2 ELSE 1
          /\ log_entries = [i \in 1..version |-> <<i, "init">>]
    /\ logged = <<>>
    /\ dropped = {}
    /\ thread_lock = 0
    /\ req = [r \in Requests |-> IdleRequest]
    /\ worker = [w \in Workers |-> Unborn]
    /\ PageIdle

\* what the steps of run_action leave alone
RequestFrame ==
    UNCHANGED << fs, dirs, show_cover, pc, status, fs0, dirs0, run, arg, got, action,
                 argv, coverVars, mainVars, execVars, stateVersion, poll, delivered,
                 logged, dropped, cover_path, last_exit_code >>

\* run_action, up to and with the entry into _thread_lock. A call with an
\* unknown action or with a folder _validate_series_dir refuses ends with
\* ValueError before it touches anything and is not a step; a call that
\* waits for the lock is a call that has not taken this step yet. (Which of
\* the three actions the request names is read first by set_running, and is
\* drawn there.)
RunAction(r) ==
    /\ req[r].pc = "idle"
    /\ thread_lock = 0
    /\ thread_lock' = r
    /\ req' = [req EXCEPT ![r].pc = "locked"]
    /\ RequestFrame
    /\ UNCHANGED << running, ui_status, current_action, version, log_entries, worker >>

\* a run_action that does not look at state.running
CheckRunning_Skipped(r) ==
    /\ req[r].pc = "locked"
    /\ req' = [req EXCEPT ![r].pc = "accepted"]
    /\ thread_lock' = thread_lock
    /\ RequestFrame
    /\ UNCHANGED << running, ui_status, current_action, version, log_entries, worker >>

\* run_action: if self.state.running: raise RuntimeError (the lock is
\* released on the way out). The threads that can be started are MaxWorkers:
\* a call is let past the check while a thread is left for it.
CheckRunning(r) ==
    /\ req[r].pc = "locked"
    /\ running \/ \E w \in Workers : worker[w].pc = "unborn"
    /\ IF running
       THEN /\ req' = [req EXCEPT ![r] = [pc |-> "refused", action |-> "",
                                          reply |-> "Another action is already running."]]
            /\ thread_lock' = 0
       ELSE /\ req' = [req EXCEPT ![r].pc = "accepted"]
            /\ thread_lock' = thread_lock
    /\ RequestFrame
    /\ UNCHANGED << running, ui_status, current_action, version, log_entries, worker >>

\* do_POST: the RuntimeError is answered with 409 and the thread is free for
\* the next request
Refuse(r) ==
    /\ req[r].pc = "refused"
    /\ req' = [req EXCEPT ![r] = IdleRequest]
    /\ RequestFrame
    /\ UNCHANGED << running, ui_status, current_action, version, log_entries,
                    thread_lock, worker >>

\* run_action: self.state.set_running(running=True, ...)
SetRunning(r) ==
    /\ req[r].pc = "accepted"
    /\ running' = TRUE
    /\ \E a \in UIActions :
          /\ ui_status' = <<"Running", a>>
          /\ current_action' = a
          /\ req' = [req EXCEPT ![r].pc = "starting", ![r].action = a]
    /\ version' = version + 1
    /\ RequestFrame
    /\ UNCHANGED << log_entries, thread_lock, worker >>

\* run_action: worker.start(), the end of the with block and the answer
StartWorker(r) ==
    /\ req[r].pc = "starting"
    /\ \E w \in Workers :
          /\ worker[w].pc = "unborn"
          /\ \A v \in 1..(w - 1) : worker[v].pc # "unborn"
          /\ worker' = [worker EXCEPT ![w] =
                           [pc |-> "header", action |-> req[r].action, n |-> 0,
                            rc |-> "none"]]
    /\ thread_lock' = 0
    /\ req' = [req EXCEPT ![r] = IdleRequest]
    /\ RequestFrame
    /\ UNCHANGED << running, ui_status, current_action, version, log_entries >>

\* what the steps of _run_action_worker leave alone
WorkerFrame ==
    UNCHANGED << fs, dirs, show_cover, pc, status, fs0, dirs0, run, arg, got, action,
                 argv, coverVars, mainVars, execVars, stateVersion, poll, delivered,
                 logged, dropped, thread_lock, req >>

\* _run_action_worker: one of the append_log calls before the subprocess
LogHeader(w) ==
    /\ worker[w].pc = "header"
    /\ AppendLog("header")
    /\ worker' = [worker EXCEPT ![w].n = IF @ + 1 = HeaderLines THEN 0 ELSE @ + 1,
                                ![w].pc = IF worker[w].n + 1 = HeaderLines
                                          THEN "popen" ELSE "header"]
    /\ WorkerFrame
    /\ UNCHANGED << running, ui_status, current_action, last_exit_code, cover_path >>

\* a worker thread that dies when the subprocess cannot be started
Popen_FailureEndsThread(w) ==
    /\ worker[w].pc = "popen"
    /\ \E started \in BOOLEAN :
          IF started
          THEN /\ worker' = [worker EXCEPT ![w].pc = "reading"]
               /\ UNCHANGED << version, log_entries >>
          ELSE /\ AppendLog("error")
               /\ worker' = [worker EXCEPT ![w] = Done]
    /\ WorkerFrame
    /\ UNCHANGED << running, ui_status, current_action, last_exit_code, cover_path >>

\* _run_action_worker: subprocess.Popen in the try block; when it raises,
\* the handler logs the error and rc is 1
Popen(w) ==
    /\ worker[w].pc = "popen"
    /\ \E started \in BOOLEAN :
          IF started
          THEN /\ worker' = [worker EXCEPT ![w].pc = "reading"]
               /\ UNCHANGED << version, log_entries >>
          ELSE /\ AppendLog("error")
               /\ worker' = [worker EXCEPT ![w].pc = "cover", ![w].rc = 1]
    /\ WorkerFrame
    /\ UNCHANGED << running, ui_status, current_action, last_exit_code, cover_path >>

\* _run_action_worker: a line of the subprocess is logged
ReadLine(w) ==
    /\ worker[w].pc = "reading"
    /\ worker[w].n < MaxLines
    /\ AppendLog("out")
    /\ worker' = [worker EXCEPT ![w].n = @ + 1]
    /\ WorkerFrame
    /\ UNCHANGED << running, ui_status, current_action, last_exit_code, cover_path >>

\* _run_action_worker: reading the output raises (a line that is not valid
\* text, say); the handler logs the error and rc is 1
ReadFails(w) ==
    /\ worker[w].pc = "reading"
    /\ AppendLog("error")
    /\ worker' = [worker EXCEPT ![w].pc = "cover", ![w].rc = 1]
    /\ WorkerFrame
    /\ UNCHANGED << running, ui_status, current_action, last_exit_code, cover_path >>

\* the exit codes of process_manga.py
ExitCodes == {0, 1, 2}

\* _run_action_worker: the output ends and proc.wait() returns
Wait(w) ==
    /\ worker[w].pc = "reading"
    /\ \E rc \in ExitCodes :
          worker' = [worker EXCEPT ![w].pc = "cover", ![w].rc = rc]
    /\ WorkerFrame
    /\ UNCHANGED << running, ui_status, current_action, last_exit_code, cover_path,
                    version, log_entries >>

\* _run_action_worker: for show_cover, _extract_cover_path and, when a line
\* of the output names an image file, update_cover
UpdateCover(w) ==
    /\ worker[w].pc = "cover"
    /\ \E found \in BOOLEAN :
          IF found /\ worker[w].action = "show_cover" /\ worker[w].n > 0
          THEN /\ cover_path' = "cover"
               /\ version' = version + 1
               /\ worker' = [worker EXCEPT ![w].pc = "cover_log"]
          ELSE /\ worker' = [worker EXCEPT ![w].pc = "report"]
               /\ UNCHANGED << cover_path, version >>
    /\ WorkerFrame
    /\ UNCHANGED << running, ui_status, current_action, last_exit_code, log_entries >>

\* _run_action_worker: "[UI] Cover loaded in-app"
LogCover(w) ==
    /\ worker[w].pc = "cover_log"
    /\ AppendLog("cover")
    /\ worker' = [worker EXCEPT ![w].pc = "report"]
    /\ WorkerFrame
    /\ UNCHANGED << running, ui_status, current_action, last_exit_code, cover_path >>

\* _run_action_worker: "[UI] Action completed successfully" or "failed"
LogReport(w) ==
    /\ worker[w].pc = "report"
    /\ AppendLog("report")
    /\ worker' = [worker EXCEPT ![w].pc = "finish"]
    /\ WorkerFrame
    /\ UNCHANGED << running, ui_status, current_action, last_exit_code, cover_path >>

\* _run_action_worker: self.state.finish_action(status=status, exit_code=rc)
FinishWorker(w) ==
    /\ worker[w].pc = "finish"
    /\ running' = FALSE
    /\ ui_status' = IF worker[w].rc = 0 THEN <<"Done", worker[w].action>>
                    ELSE <<"Failed", worker[w].rc>>
    /\ current_action' = ""
    /\ last_exit_code' = worker[w].rc
    /\ version' = version + 1
    /\ worker' = [worker EXCEPT ![w] = Done]
    /\ WorkerFrame
    /\ UNCHANGED << cover_path, log_entries >>

\* a step of run_action in thread r
RequestStep(r) ==
    \/ RunAction(r)
    \/ CheckRunning(r)
    \/ Refuse(r)
    \/ SetRunning(r)
    \/ StartWorker(r)

\* a step of worker thread w
WorkerStep(w) ==
    \/ LogHeader(w)
    \/ Popen(w)
    \/ ReadLine(w)
    \/ ReadFails(w)
    \/ Wait(w)
    \/ UpdateCover(w)
    \/ LogCover(w)
    \/ LogReport(w)
    \/ FinishWorker(w)

CtlNext ==
    \/ \E r \in Requests : RequestStep(r)
    \/ \E w \in Workers : WorkerStep(w)

CtlSpec == CtlInit /\ [][CtlNext]_vars

\* the same with threads that go on running: a worker thread takes its next
\* step, the subprocess ends, and a thread that holds _thread_lock goes on
CtlLive ==
    /\ CtlSpec
    /\ \A w \in Workers : WF_vars(WorkerStep(w))
    /\ \A r \in Requests : WF_vars(CheckRunning(r) \/ SetRunning(r) \/ StartWorker(r))

(***************************************************************************)
(* The log of SharedState and the page that polls it: threads that append  *)
(* lines and change the state, /api/clear-log, and pollState               *)
(***************************************************************************)

\* the value of SharedState.version the runs stop at
MaxVersion == 7

\* the elements of a sequence
Range(seq) == { seq[i] : i \in 1..Len(seq) }

\* the lines of log_entries, without their versions
Lines(entries) == [i \in 1..Len(entries) |-> entries[i][2]]

\* the entries of log_entries with a version above from_version, in their order
RECURSIVE SelectEntries(_, _)
SelectEntries(entries, from_version) ==
    IF entries = <<>> THEN <<>>
    ELSE IF Head(entries)[1] > from_version
         THEN <<Head(entries)>> \o SelectEntries(Tail(entries), from_version)
         ELSE SelectEntries(Tail(entries), from_version)

\* a snapshot that also returns the line whose version is from_version
snapshot_Inclusive(from_version) ==
    [version |-> version,
     new_log |-> Lines(SelectEntries(log_entries, from_version - 1))]

\* SharedState.snapshot(from_version): the lines with v > from_version and
\* the version
snapshot(from_version) ==
    [version |-> version,
     new_log |-> Lines(SelectEntries(log_entries, from_version))]

\* UIController.__init__, with or without an initial folder, and the page
\* just loaded. The text of a line is its number in the order of the
\* append_log calls, logged[k] is the version line k got, dropped the lines
\* that left log_entries, delivered the lines the page added to its terminal.
LogInit ==
    /\ MainIdle
    /\ pc = "log"
    /\ arg = <<>>
    /\ got = <<>>
    /\ running = FALSE
    /\ ui_status = "Idle"
    /\ current_action = ""
    /\ last_exit_code = "none"
    /\ cover_path = "none"
    /\ \E folder \in BOOLEAN :
          /\ version = IF folder THEN 2 ELSE 1
          /\ log_entries = [i \in 1..version |-> <<i, i>>]
          /\ logged = [i \in 1..version |-> i]
    /\ dropped = {}
    /\ thread_lock = 0
    /\ req = <<IdleRequest>>
    /\ worker = <<>>
    /\ PageIdle

\* what the steps on the log leave alone
LogFrame ==
    UNCHANGED << fs, dirs, show_cover, pc, status, fs0, dirs0, run, arg, got, action,
                 argv, coverVars, mainVars, execVars, running, ui_status,
                 current_action, last_exit_code, thread_lock, worker >>

\* the lines of entries that are not in kept
Lost(entries, kept) == Range(Lines(entries)) \ Range(Lines(kept))

\* a thread (a worker, set_series_dir) calls append_log
AppendLine ==
    /\ version < MaxVersion
    /\ AppendLog(Len(logged) + 1)
    /\ logged' = Append(logged, version')
    /\ dropped' = dropped \cup Lost(Append(log_entries, <<version', Len(logged) + 1>>),
                                  log_entries')
    /\ LogFrame
    /\ UNCHANGED << req, cover_path, stateVersion, poll, delivered >>

\* a thread calls update_cover: a change of the state that is not a line
UpdateCoverCall ==
    /\ version < MaxVersion
    /\ \E path \in {"none", "cover"} : cover_path' = path
    /\ version' = version + 1
    /\ LogFrame
    /\ UNCHANGED << req, log_entries, logged, dropped, stateVersion, poll, delivered >>

\* UIController.clear_log: self.state.clear_log()
ClearLog ==
    /\ version < MaxVersion - 1
    /\ req[1].pc = "idle"
    /\ log_entries' = <<>>
    /\ version' = version + 1
    /\ dropped' = dropped \cup Range(Lines(log_entries))
    /\ req' = [req EXCEPT ![1].pc = "cleared"]
    /\ LogFrame
    /\ UNCHANGED << cover_path, logged, stateVersion, poll, delivered >>

\* UIController.clear_log: self.state.append_log("[UI] Terminal cleared.")
LogCleared ==
    /\ req[1].pc = "cleared"
    /\ AppendLog(Len(logged) + 1)
    /\ logged' = Append(logged, version')
    /\ dropped' = dropped \cup Lost(Append(log_entries, <<version', Len(logged) + 1>>),
                                  log_entries')
    /\ req' = [req EXCEPT ![1].pc = "idle"]
    /\ LogFrame
    /\ UNCHANGED << cover_path, stateVersion, poll, delivered >>

\* pollState: fetch(`/api/state?from=${stateVersion}`)
PollSend ==
    /\ poll.pc = "idle"
    /\ poll' = [pc |-> "sent", from |-> stateVersion]
    /\ LogFrame
    /\ UNCHANGED << req, cover_path, version, log_entries, logged, dropped,
                    stateVersion, delivered >>

\* do_GET /api/state: self.controller.state.snapshot(from_version)
PollServe ==
    /\ poll.pc = "sent"
    /\ poll' = [pc |-> "replied", data |-> snapshot(poll.from)]
    /\ LogFrame
    /\ UNCHANGED << req, cover_path, version, log_entries, logged, dropped,
                    stateVersion, delivered >>

\* pollState: addTerminal(data.new_log), stateVersion = data.version ||
\* stateVersion, and the next poll is scheduled
PollReceive ==
    /\ poll.pc = "replied"
    /\ delivered' = delivered \o poll.data.new_log
    /\ stateVersion' = IF poll.data.version # 0 THEN poll.data.version ELSE stateVersion
    /\ poll' = [pc |-> "idle"]
    /\ LogFrame
    /\ UNCHANGED << req, cover_path, version, log_entries, logged, dropped >>

\* pollState: the request or its answer is lost, catch and finally
PollFails ==
    /\ poll.pc \in {"sent", "replied"}
    /\ poll' = [pc |-> "idle"]
    /\ LogFrame
    /\ UNCHANGED << req, cover_path, version, log_entries, logged, dropped,
                    stateVersion, delivered >>

LogNext ==
    \/ AppendLine
    \/ UpdateCoverCall
    \/ ClearLog
    \/ LogCleared
    \/ PollSend
    \/ PollServe
    \/ PollReceive
    \/ PollFails

LogSpec == LogInit /\ [][LogNext]_vars

(***************************************************************************)
(* The claims                                                              *)
(***************************************************************************)

\* the planned moves, as <<batch, move>> positions of the plan
Positions == { <<b, m>> \in (1..Len(plan)) \X (1..FILES_PER_FOLDER) : m <= Len(plan[b].moves) }

MoveAt(pos) == plan[pos[1]].moves[pos[2]]

\* the sources of the plan, batch after batch
RECURSIVE SourcesFrom(_)
SourcesFrom(b) ==
    IF b > Len(plan) THEN <<>>
    ELSE [m \in 1..Len(plan[b].moves) |-> plan[b].moves[m].src[2]] \o SourcesFrom(b + 1)

VolumeFiles(f) == { p \in DOMAIN f : f[p].kind = "vol" }

\* the volume of the move is at its destination and no longer at its source
Moved(mv) ==
    /\ ~Exists(fs, mv.src[1], mv.src[2])
    /\ Exists(fs, mv.dst[1], mv.dst[2])
    /\ fs[mv.dst] = Volume(mv.src[2])

StaleVolume == <<"v", "0", "0", "1">> \o CBZ

\* C1: when the user declines at the prompt, the files and the directories
\* are exactly those of the start of the run.
C1_DeclineLeavesFilesystem ==
    (pc = "done" /\ confirmed = "no") => (fs = fs0 /\ dirs = dirs0)

\* C2: when main fails with status 2 (not a directory, no volumes found),
\* the files and the directories are exactly those of the start of the run.
C2_FailureLeavesFilesystem ==
    (pc = "done" /\ status = "exit2") => (fs = fs0 /\ dirs = dirs0)

\* C3: after a confirmed run that executed its whole plan, every scanned
\* volume is at its planned destination in the directory of its batch and
\* nowhere else, batch b holds the b-th chunk of the scanned list, no volume
\* is left for scan_volumes in the series directory, and the number of
\* volume files is that of the start; a second run plans nothing and ends
\* with the status of "no volumes found".
C3_CompletedRunMovesEveryVolume ==
    /\ (pc = "done" /\ confirmed = "yes" /\ status = "exit0") =>
          /\ \A pos \in Positions :
                /\ MoveAt(pos).dst[1] = batch_dir_name(SERIES, pos[1])
                /\ { p \in DOMAIN fs : fs[p] = fs0[MoveAt(pos).src] } = { MoveAt(pos).dst }
                /\ MoveAt(pos).src[2] =
                       SourcesFrom(1)[(pos[1] - 1) * FILES_PER_FOLDER + pos[2]]
          /\ SourcesFrom(1) \in scan_volumes(fs0, SERIES)
          /\ scan_volumes(fs, SERIES) = {<<>>}
          /\ Cardinality(VolumeFiles(fs)) = Cardinality(VolumeFiles(fs0))
    /\ run = 2 => plan = <<>>
    /\ (run = 2 /\ pc = "done") => status = "exit2"

\* C3, reached: a second run has ended after a first run of two batches.
C3_Witness ==
    /\ run = 2
    /\ pc = "done"
    /\ status = "exit2"
    /\ \E p \in VolumeFiles(fs) : p[1] = batch_dir_name(SERIES, 2)

\* C4: when execute is about to perform a planned move, its destination
\* does not exist, and no move of the run has replaced a file.
C4_MoveDestinationIsFree ==
    /\ ~overwrote
    /\ pc = "exec_move" =>
          ~Exists(fs, plan[bi].moves[mi].dst[1], plan[bi].moves[mi].dst[2])

\* C4, reached: the moves of the second batch, after a first batch whose
\* directory held a file of the first clean name and got a numbered cover.
C4_Witness ==
    /\ pc = "exec_move"
    /\ bi = 2
    /\ Exists(fs0, batch_dir_name(SERIES, 1), StaleVolume)
    /\ Exists(fs, batch_dir_name(SERIES, 1), Suffixed(StaleVolume, 2))
    /\ series_cover # None

\* the name is neither on the disk nor given to a move before the j-th of
\* batch b
FreeFor(b, j, name) ==
    /\ ~Exists(fs, plan[b].batch_dir, name)
    /\ \A i \in 1..(j - 1) : plan[b].moves[i].dst_name # name

\* an earlier move of batch b has the clean name of the j-th
CleansLikeEarlier(b, j) ==
    \E i \in 1..(j - 1) :
        clean_volume_filename(plan[b].moves[i].src[2])
            = clean_volume_filename(plan[b].moves[j].src[2])

\* C5: in the plan build_plan returns, the destinations of a batch are
\* pairwise distinct and none exists on the disk; a file that cleans to the
\* name of an earlier file of its batch gets the clean name with " (k)"
\* before the extension, for the least k >= 2 whose name is neither given to
\* an earlier move nor on the disk.
C5_DestinationsDistinctAndFree ==
    pc = "confirm" =>
        \A b \in 1..Len(plan) :
            LET ms == plan[b].moves
            IN  /\ \A i, j \in 1..Len(ms) : i # j => ms[i].dst # ms[j].dst
                /\ \A j \in 1..Len(ms) :
                      /\ ms[j].dst = <<plan[b].batch_dir, ms[j].dst_name>>
                      /\ ~Exists(fs, plan[b].batch_dir, ms[j].dst_name)
                      /\ CleansLikeEarlier(b, j) =>
                            LET c == clean_volume_filename(ms[j].src[2])
                            IN  \E k \in 2..(j + Cardinality(DOMAIN fs) + 1) :
                                  /\ ms[j].dst_name = Suffixed(c, k)
                                  /\ FreeFor(b, j, Suffixed(c, k))
                                  /\ \A k2 \in 2..(k - 1) : ~FreeFor(b, j, Suffixed(c, k2))

\* C5, reached: a plan in which the second of two files of one clean name
\* gets " (3)", the clean name being on the disk and " (2)" given to the
\* first.
C5_Witness ==
    /\ pc = "confirm"
    /\ Len(plan[1].moves) = 2
    /\ CleansLikeEarlier(1, 2)
    /\ plan[1].moves[2].dst_name = Suffixed(StaleVolume, 3)

\* the number of volumes scan_volumes finds in the series directory
Scanned == Len(CHOOSE vols \in scan_volumes(fs, SERIES) : TRUE)

\* C6: for n >= 1 scanned volumes the plan has ceil(n / FILES_PER_FOLDER)
\* batches, indexed 1..k in order; every batch but the last has
\* FILES_PER_FOLDER moves and the last between 1 and FILES_PER_FOLDER; the
\* sources of the batches in order are a list scan_volumes returns; the
\* directory of batch i is "<series name> i" beside the series directory.
C6_PlanPartitionsTheScan ==
    pc = "confirm" =>
        LET k == Len(plan)
        IN  /\ Scanned >= 1
            /\ k * FILES_PER_FOLDER >= Scanned
            /\ (k - 1) * FILES_PER_FOLDER < Scanned
            /\ \A b \in 1..k :
                  /\ plan[b].batch_index = b
                  /\ plan[b].batch_dir = SERIES \o <<" ">> \o Str(b)
                  /\ \A m \in 1..Len(plan[b].moves) :
                        /\ plan[b].moves[m].dst[1] = plan[b].batch_dir
                        /\ plan[b].moves[m].src[1] = SERIES
                  /\ b < k => Len(plan[b].moves) = FILES_PER_FOLDER
            /\ Len(plan[k].moves) \in 1..FILES_PER_FOLDER
            /\ SourcesFrom(1) \in scan_volumes(fs, SERIES)

\* C6, reached: 45 volumes planned as batches of 20, 20 and 5.
C6_Witness ==
    /\ pc = "confirm"
    /\ Scanned = 45
    /\ Len(plan) = 3
    /\ Len(plan[1].moves) = 20
    /\ Len(plan[2].moves) = 20
    /\ Len(plan[3].moves) = 5
    /\ plan[3].batch_dir = <<"s", " ", "3">>

\* C7: a confirmed run in which no move failed has performed every planned
\* move when it ends, whatever became of the covers.
C7_CoversNeverBlockMoves ==
    (pc = "done" /\ confirmed = "yes" /\ exc # "move") =>
        \A pos \in Positions : Moved(MoveAt(pos))

StageOrder == <<"extract", "local", "remote">>

\* C8: ensure_series_cover tries its stages in the order extraction, local
\* file, remote providers; when it tries a stage every earlier stage has
\* produced nothing; what it returns is what the last stage it tried
\* produced.
C8_StagesInOrder ==
    /\ Len(stages) <= Len(StageOrder)
    /\ \A i \in 1..Len(stages) : stages[i].stage = StageOrder[i]
    /\ \A i \in 1..(Len(stages) - 1) : stages[i].result = None
    /\ pc = "cover_return" =>
          /\ stages # <<>>
          /\ ret = stages[Len(stages)].result

\* C8, reached: the third stage returns a cover after the first two
\* produced nothing.
C8_Witness ==
    /\ pc = "cover_return"
    /\ Len(stages) = 3
    /\ ret = <<SERIES, COVER_JPG>>
    /\ first_vol_err = "decode"

\* C9: find_remote_cover asks MangaDex, AniList, Kitsu in this order, each
\* only after those before it gave no result; the result it returns is that
\* of the last provider asked; a provider that raises or returns nothing is
\* followed by the next, so the search gives up only after the third, and
\* then ensure_series_cover returns None and nothing has been raised.
C9_ProvidersInOrder ==
    /\ Len(queried) <= Len(Fetchers)
    /\ \A i \in 1..Len(queried) : queried[i].provider = Fetchers[i]
    /\ \A i \in 1..(Len(queried) - 1) : queried[i].outcome # "result"
    /\ pc = "download" =>
          /\ queried # <<>>
          /\ queried[Len(queried)].outcome = "result"
          /\ res = queried[Len(queried)].provider
    /\ (pc = "cover_return" /\ queried # <<>>) =>
          IF queried[Len(queried)].outcome = "result"
          THEN ret # None => (ret = <<SERIES, COVER_JPG>> /\ fs[ret] = Image(<<res>>))
          ELSE /\ Len(queried) = Len(Fetchers)
               /\ ret = None
               /\ status = "running"
               /\ exc = "none"

\* C9, reached: the first provider raised, the second returned nothing, and
\* the cover returned is the third provider's.
C9_Witness ==
    /\ pc = "cover_return"
    /\ Len(queried) = 3
    /\ queried[1].outcome = "raises"
    /\ queried[2].outcome = "nothing"
    /\ ret = <<SERIES, COVER_JPG>>
    /\ fs[ret] = Image(<<"kitsu">>)

\* C10: when ensure_series_cover has returned a cover in a run without
\* --show-cover, cover.jpg exists in the series directory and holds that
\* cover.
C10_CoverJpgHoldsTheCover ==
    (pc = "plan" /\ series_cover # None) =>
        /\ Exists(fs, SERIES, COVER_JPG)
        /\ \/ series_cover = <<SERIES, COVER_JPG>>
           \/ fs[<<SERIES, COVER_JPG>>] = Image(<<"jpeg of ">> \o fs[series_cover].tag)

\* C11: when the series directory holds cover.jpg at the start of a run,
\* ensure_series_cover extracts nothing from the first volume and returns
\* cover.jpg with the content it had at the start.
C11_ExistingCoverIsKept ==
    (pc = "cover_return" /\ Exists(fs0, SERIES, COVER_JPG)) =>
        /\ \A i \in 1..Len(stages) :
              stages[i].stage = "extract" => stages[i].result = None
        /\ ret = <<SERIES, COVER_JPG>>
        /\ fs[<<SERIES, COVER_JPG>>] = fs0[<<SERIES, COVER_JPG>>]

\* the paths of the cover_old*.jpg files of f
CoverOlds(f) ==
    { p \in DOMAIN f :
        /\ Len(p[2]) >= Len(COVER_OLD_JPG)
        /\ SubSeq(p[2], 1, 9) = SubSeq(COVER_OLD_JPG, 1, 9)
        /\ Suffix(p[2]) = Suffix(COVER_OLD_JPG) }

\* C12: no step overwrites or deletes a cover_old*.jpg file, and a call of
\* write_numbered_cover on a batch directory that holds cover.jpg adds
\* exactly one cover_old*.jpg file, whose content is that of the cover.jpg
\* it found.
C12_ArchiveKeepsOldCovers ==
    [][ /\ \A p \in CoverOlds(fs) : p \in DOMAIN fs' /\ fs'[p] = fs[p]
        /\ (pc = "cover_call" /\ Exists(fs, BATCH, COVER_JPG)) =>
              \E p \in CoverOlds(fs') \ CoverOlds(fs) :
                  /\ CoverOlds(fs') = CoverOlds(fs) \cup {p}
                  /\ fs'[p] = fs[<<BATCH, COVER_JPG>>] ]_vars

\* two calls on a directory that held cover.jpg and cover_old.jpg: the
\* first archived cover.jpg as cover_old_2.jpg, the second archived the
\* cover the first call wrote as cover_old_3.jpg
C12_Witness ==
    /\ pc = "cover_call"
    /\ mi = 2
    /\ Exists(fs0, BATCH, COVER_JPG)
    /\ Exists(fs0, BATCH, COVER_OLD_JPG)
    /\ ~Exists(fs0, BATCH, cover_old_name(2))
    /\ fs[<<BATCH, cover_old_name(2)>>] = fs0[<<BATCH, COVER_JPG>>]
    /\ fs[<<BATCH, COVER_OLD_JPG>>] = fs0[<<BATCH, COVER_OLD_JPG>>]
    /\ Exists(fs, BATCH, cover_old_name(3))

\* the files of directory dir that are no volumes: its covers
CoversIn(f, dir) == { p \in DOMAIN f : p[1] = dir /\ f[p].kind # "vol" }

\* C13: when a move has raised in execute, the moves planned before it
\* (in its batch and in the earlier batches) are done and stay done, the
\* move that failed and every move planned after it are not performed,
\* and the cover files of the batch of the failed move are those of the
\* start of the run.
C13_FailedMoveStopsTheBatch ==
    (pc = "done" /\ exc = "move") =>
        /\ \A pos \in Positions :
              IF pos[1] < bi \/ (pos[1] = bi /\ pos[2] < mi)
              THEN Moved(MoveAt(pos))
              ELSE /\ Exists(fs, MoveAt(pos).src[1], MoveAt(pos).src[2])
                   /\ fs[MoveAt(pos).src] = fs0[MoveAt(pos).src]
                   /\ ~Exists(fs, MoveAt(pos).dst[1], MoveAt(pos).dst[2])
        /\ CoversIn(fs, plan[bi].batch_dir) = CoversIn(fs0, plan[bi].batch_dir)
        /\ \A p \in CoversIn(fs, plan[bi].batch_dir) : fs[p] = fs0[p]

\* C13, reached: the second move of the second batch failed in a run that
\* renders covers, after the first batch was moved and given its cover.
C13_Witness ==
    /\ pc = "done"
    /\ exc = "move"
    /\ bi = 2
    /\ mi = 2
    /\ series_cover # None
    /\ Exists(fs, batch_dir_name(SERIES, 1), COVER_JPG)

C15_CleanIsIdempotent ==
    (pc = "clean" /\ Len(got) = 2) => got[2] = got[1]

\* the stem the marker is looked for in: parentheticals removed, whitespace
\* collapsed and trimmed and, when groups is TRUE, the "_<digits>" groups
\* after a "v<integer>" removed
PreparedStem(x, groups) ==
    LET s == Strip(CollapseSpaces(RemoveParens(Stem(x))))
    IN  IF groups THEN DropUnderscoreGroups(s) ELSE s

\* the positions of s where a volume marker starts: "v" or "V", then
\* spaces or none, then a digit; with boundary, only a "v" that follows no
\* word character (letter, digit of any kind, underscore)
VolumeMarkers(s, boundary) ==
    { i \in 1..Len(s) :
        /\ s[i] \in {"v", "V"}
        /\ boundary =>
              \/ i = 1
              \/ ~(IsDigit(s[i - 1]) \/ s[i - 1] \in {"_", "^2"}
                      \/ \E k \in 1..26 : LowerChar(s[i - 1]) = LowerChars[k])
        /\ \E j \in (i + 1)..Len(s) :
              /\ IsDigit(s[j])
              /\ \A k \in (i + 1)..(j - 1) : s[k] = " " }

\* r is "<title> v<NNN><ext>" (or "v<NNN><ext>") for the first marker of s:
\* <title> the trimmed text before it, <NNN> its integer written with three
\* digits or more and no zero beyond the third
ReemitsMarker(r, s, boundary, ext) ==
    LET i      == CHOOSE i \in VolumeMarkers(s, boundary) :
                      \A j \in VolumeMarkers(s, boundary) : i <= j
        b      == i + 1 + SpaceRun(s, i + 1)
        n      == ParseInt(SubSeq(s, b, b + DigitRun(s, b) - 1))
        title  == Strip(SubSeq(s, 1, i - 1))
        prefix == IF title = <<>> THEN <<"v">> ELSE title \o <<" ", "v">>
        nnn    == SubSeq(r, Len(prefix) + 1, Len(r) - Len(ext))
    IN  /\ Len(r) >= Len(prefix) + 3 + Len(ext)
        /\ r = prefix \o nnn \o ext
        /\ \A k \in 1..Len(nnn) : IsDigit(nnn[k])
        /\ ParseInt(nnn) = n
        /\ Len(nnn) > 3 => nnn[1] # "0"

SmallerInOneRun(x, y) ==
    \E i \in 1..Len(x) : \E j \in i..Len(x), k \in i..Len(y) :
        /\ SubSeq(x, 1, i - 1) = SubSeq(y, 1, i - 1)
        /\ From(x, j + 1) = From(y, k + 1)
        /\ \A m \in i..j : IsDigit(x[m])
        /\ \A m \in i..k : IsDigit(y[m])
        /\ i = 1 \/ ~IsDigit(x[i - 1])
        /\ j = Len(x) \/ ~IsDigit(x[j + 1])
        /\ ParseInt(SubSeq(x, i, j)) < ParseInt(SubSeq(y, i, k))

\* C17: the keys of two names are produced and compared without error;
\* of two names that differ in one run of digits the one with the smaller
\* number sorts first; names that differ in the case of letters only have
\* equal keys.
C17_NaturalOrder ==
    (pc = "done" /\ Len(arg) = 2) =>
        /\ exc = "none"
        /\ SmallerInOneRun(arg[1], arg[2]) => got[3] = "less"
        /\ Lower(arg[1]) = Lower(arg[2]) => got[3] = "equal"

(***************************************************************************)
(* The browser UI: run_action starts a worker that runs process_manga.py   *)
(* on the chosen folder with one option per action, and records how the    *)
(* process ended                                                           *)
(***************************************************************************)

\* the option _run_action_worker puts on the command line for an action
WorkerOption(a) ==
    IF a = "show_cover" THEN "--print-cover-path"
    ELSE IF a = "preview" THEN "--dry-run"
    ELSE "--yes"

\* the options the parser of main defines
ParserOptions == {"--show-cover"}

\* the status _run_action_worker hands to finish_action for exit code rc
WorkerStatus(a, rc) == IF rc = "exit0" THEN <<"Done", a>> ELSE <<"Failed", rc>>

\* a series folder that _validate_series_dir accepts, and an action chosen
UIInit ==
    /\ \E n \in VolCounts, extra \in SUBSET ExtraVolumes,
          covers \in SeriesCovers, batch \in BatchContents :
          /\ n <= MaxSmall \/ extra = {}
          /\ fs = InitialFs(n, extra, covers, batch)
          /\ dirs = {SERIES} \cup (IF batch.dir THEN {batch_dir_name(SERIES, 1)} ELSE {})
    /\ show_cover = FALSE
    /\ pc = "ui"
    /\ status = "running"
    /\ first_vol = <<>>
    /\ first_vol_err = "none"
    /\ fi = 1
    /\ res = "none"
    /\ last_err = "none"
    /\ ret = None
    /\ series_cover = None
    /\ plan = <<>>
    /\ answer = <<>>
    /\ confirmed = "unasked"
    /\ exc = "none"
    /\ run = 1
    /\ bi = 1
    /\ mi = 1
    /\ fs0 = fs
    /\ dirs0 = dirs
    /\ stages = <<>>
    /\ queried = <<>>
    /\ returned = FALSE
    /\ overwrote = FALSE
    /\ arg = <<>>
    /\ got = <<>>
    /\ action \in UIActions
    /\ argv = <<>>
    /\ CtlIdle

\* _run_action_worker, up to the start of the process
RunActionWorker ==
    /\ pc = "ui"
    /\ argv' = <<WorkerOption(action)>>
    /\ pc' = "parse"
    /\ UNCHANGED << fs, dirs, show_cover, status, fs0, dirs0, run, arg, got, action,
                    ctlVars, coverVars, mainVars, execVars >>

\* main: parse_args, which ends the process with status 2 on an option the
\* parser does not define
ParseArgs ==
    /\ pc = "parse"
    /\ IF \E i \in 1..Len(argv) : argv[i] \notin ParserOptions
       THEN pc' = "done" /\ status' = "exit2" /\ show_cover' = show_cover
       ELSE /\ pc' = "start" /\ status' = status
            /\ show_cover' = (\E i \in 1..Len(argv) : argv[i] = "--show-cover")
    /\ UNCHANGED << fs, dirs, fs0, dirs0, run, arg, got, action, argv, ctlVars,
                    coverVars, mainVars, execVars >>

\* _run_action_worker, from the end of the process: finish_action
FinishAction ==
    /\ pc = "done"
    /\ action \in UIActions
    /\ got' = <<WorkerStatus(action, status)>>
    /\ pc' = "ui_done"
    /\ UNCHANGED << fs, dirs, show_cover, status, fs0, dirs0, run, arg, action, argv, ctlVars,
                    coverVars, mainVars, execVars >>

UINext ==
    \/ RunActionWorker
    \/ ParseArgs
    \/ FinishAction

UISpec == UIInit /\ [][UINext]_vars

\* C18: the command line the worker builds is one the core accepts: once the
\* worker has finished, "preview" on a folder of volumes has ended with status 0
\* and moved no file, and "process" has ended with status 0 and left no volume
\* in the series folder.
C18_WorkerCommandsAreAccepted ==
    (pc = "ui_done" /\ scan_volumes(fs0, SERIES) # {<<>>}) =>
        /\ status = "exit0"
        /\ got = <<WorkerStatus(action, "exit0")>>
        /\ action = "preview" => fs = fs0
        /\ action = "process" => scan_volumes(fs, SERIES) = {<<>>}

\* the names scan_volumes keeps of a directory, before it sorts them
ScannedNames(f, dir) ==
    { n \in FilesIn(f, dir) :
        ~is_hidden_or_macos_junk(n) /\ Lower(Suffix(n)) \in VOLUME_EXTS }

\* C19: when main scans the series directory, two distinct volume names never
\* have the same natural sort key, and scan_volumes can return one order only,
\* whatever the order of the directory listing.
C19_ScanOrderIsDetermined ==
    pc = "plan" =>
        /\ \A x, y \in ScannedNames(fs, SERIES) :
              x # y => natural_key_name(x) # natural_key_name(y)
        /\ Cardinality(scan_volumes(fs, SERIES)) = 1

\* C20: whenever execute writes the cover of a batch, the cover.jpg it leaves
\* in the batch directory is the series cover of this run with the batch
\* number drawn on it, whatever cover.jpg and cover_old*.jpg the directory
\* held before.
C20_CoverIsRenderedFromSeriesCover ==
    [][ (pc = "exec_cover" /\ exc' = exc /\ fs' # fs) =>
            fs'[<<plan[bi].batch_dir, COVER_JPG>>] =
                Rendered(fs[series_cover], plan[bi].batch_index) ]_vars

\* C21: a failed download does not end cover resolution: when
\* ensure_series_cover gives up after a download that failed, every provider
\* of find_remote_cover has been asked.
C21_DownloadFailureCascades ==
    (pc = "cover_return" /\ last_err = "download") =>
        /\ Len(queried) = Len(Fetchers)
        /\ \A i \in 1..Len(Fetchers) : queried[i].provider = Fetchers[i]

\* position p of the plan comes before position q
Before(p, q) == p[1] < q[1] \/ (p[1] = q[1] /\ p[2] < q[2])

\* the volume of the move is still at its source
NotMoved(mv) == Exists(fs, mv.src[1], mv.src[2]) /\ fs[mv.src] = fs0[mv.src]

\* the cover of batch b is the one write_numbered_cover renders with number b
Numbered(f, b) ==
    LET p == <<plan[b].batch_dir, COVER_JPG>>
        label == <<"n", "o">> \o Str(b) \o <<" ">>
    IN  /\ p \in DOMAIN f
        /\ f[p].kind = "img"
        /\ Len(f[p].tag) > Len(label)
        /\ SubSeq(f[p].tag, 1, Len(label)) = label

\* C22: execute takes the batches in plan order. When it is about to move a
\* file, the directory of the batch exists, every move planned before this one
\* is done and no later one is, and the cover of this batch is not yet
\* written; the step moves this file and no other. When it is about to write
\* the cover of batch i, a series cover was resolved, every move of the batches
\* up to i is done and no move of a later batch is, and the cover written
\* carries the number i. Without a series cover no cover is written. The batch
\* in hand never goes back.
C22_ExecuteInPlanOrder ==
    [][ /\ pc = "exec_move" =>
              /\ plan[bi].batch_dir \in dirs
              /\ \A pos \in Positions :
                    IF Before(pos, <<bi, mi>>) THEN Moved(MoveAt(pos))
                    ELSE NotMoved(MoveAt(pos))
              /\ \A p \in CoversIn(fs, plan[bi].batch_dir) :
                    p \in DOMAIN fs0 /\ fs[p] = fs0[p]
              /\ fs' # fs =>
                    /\ VolumeFiles(fs) \ VolumeFiles(fs') = { MoveAt(<<bi, mi>>).src }
                    /\ VolumeFiles(fs') \ VolumeFiles(fs) = { MoveAt(<<bi, mi>>).dst }
        /\ pc = "exec_cover" =>
              /\ series_cover # None
              /\ plan[bi].batch_index = bi
              /\ \A pos \in Positions :
                    IF pos[1] <= bi THEN Moved(MoveAt(pos))
                    ELSE NotMoved(MoveAt(pos))
              /\ \A b \in 1..(bi - 1) : Numbered(fs, b)
              /\ (exc' = exc) => Numbered(fs', bi)
              /\ VolumeFiles(fs') = VolumeFiles(fs)
        /\ (pc \in {"exec_dir", "exec_move"} /\ series_cover = None) =>
              \A b \in 1..Len(plan) :
                    CoversIn(fs', plan[b].batch_dir) = CoversIn(fs, plan[b].batch_dir)
        /\ (pc \in {"exec_dir", "exec_move", "exec_cover"}) =>
              bi' \in {bi, bi + 1}
      ]_vars

\* C22, reached: execute is about to write the cover of the second batch, of
\* two volumes, after the first batch got its twenty volumes and its cover.
C22_Witness ==
    /\ pc = "exec_cover"
    /\ bi = 2
    /\ Len(plan[1].moves) = FILES_PER_FOLDER
    /\ Len(plan[2].moves) = 2
    /\ Numbered(fs, 1)
    /\ \A pos \in Positions : Moved(MoveAt(pos))

\* C23: build_plan changes no file and no directory, whether it returns a
\* plan or raises: after it the files, their contents and the directories are
\* those before it, and a batch directory that did not exist still does not.
C23_PlanningLeavesFilesystem ==
    [][ pc = "plan" =>
            /\ fs' = fs
            /\ dirs' = dirs
            /\ \A b \in 1..Len(plan') :
                  plan'[b].batch_dir \in dirs' => plan'[b].batch_dir \in dirs0 ]_vars

\* C23, reached: build_plan has returned a plan of two batches, the first
\* into a directory that held a file of a planned name, the second into a
\* directory that does not exist.
C23_Witness ==
    /\ pc = "confirm"
    /\ Len(plan) = 2
    /\ Exists(fs, plan[1].batch_dir, StaleVolume)
    /\ plan[1].batch_dir \in dirs
    /\ plan[2].batch_dir \notin dirs
    /\ fs = fs0

\* the sizes fit_font_size searches for an image of w by h pixels
FitSizes(w, h) == 10..(Max2(w, h) * 5)

\* size s fits and no larger size of the range does
LargestFit(w, h, n, font, s) ==
    /\ s \in FitSizes(w, h)
    /\ Fits(w, h, n, font, s)
    /\ \A t \in FitSizes(w, h) : Fits(w, h, n, font, t) => t <= s

\* C24 as stated: the size fit_font_size returns is the largest size of the
\* range whose bounding box fits, and it always fits, for small images too.
C24_ReturnedSizeAlwaysFits ==
    pc = "fit_done" => LargestFit(arg[1], arg[2], arg[3], arg[4], got[1])

\* C24, amended: when some size of the range fits, fit_font_size returns the
\* largest one that does; when none fits (size 10 does not fit, or the range
\* is empty) it returns 10 all the same.
C24_LargestFitOrFloor ==
    pc = "fit_done" =>
        IF \E t \in FitSizes(arg[1], arg[2]) : Fits(arg[1], arg[2], arg[3], arg[4], t)
        THEN LargestFit(arg[1], arg[2], arg[3], arg[4], got[1])
        ELSE got[1] = 10

\* C24, reached: the search has returned a size above 10 and below the top of
\* the range, for a label of two characters.
C24_Witness ==
    /\ pc = "fit_done"
    /\ arg[3] = 2
    /\ got[1] > 10
    /\ got[1] < Max2(arg[1], arg[2]) * 5
    /\ ~Fits(arg[1], arg[2], arg[3], arg[4], got[1] + 1)

\* C25: when no volume marker is found in the name, clean_volume_filename
\* returns the stem with the parentheticals removed and the whitespace
\* collapsed and trimmed, nothing else changed, followed by the extension.
C25_UnmarkedStemOnlyTidied ==
    (pc = "clean" /\ Len(got) >= 1
        /\ VolumeMarkers(PreparedStem(arg[1], TRUE), TRUE) = {}) =>
        got[1] = PreparedStem(arg[1], FALSE) \o Suffix(arg[1])

\* the answers of Answers that are "y" or "yes" once trimmed and lowered
YesAnswers == { <<"y">>, <<" ", "Y", "e", "s">> }

\* execute is running
Executing == pc \in {"exec_dir", "exec_move", "exec_cover"}

\* C26: in every run of main, a step that creates a directory, moves, renames
\* or changes a volume file, or changes anything outside the series directory
\* is a step of execute; execute runs only without --show-cover, on a plan
\* that was built, after the prompt was answered, and it starts only on an
\* answer that is "y" or "yes" (whitespace around it and case aside).
C26_NothingMovesBeforeYes ==
    [][ /\ (\/ dirs' # dirs
            \/ VolumeFiles(fs') # VolumeFiles(fs)
            \/ \E p \in VolumeFiles(fs) : fs'[p] # fs[p]
            \/ \E p \in DOMAIN fs \cup DOMAIN fs' :
                  /\ p[1] # SERIES
                  /\ (p \notin DOMAIN fs \/ p \notin DOMAIN fs' \/ fs'[p] # fs[p]))
              => Executing
        /\ Executing =>
              /\ ~show_cover
              /\ confirmed = "yes"
              /\ plan # <<>>
              /\ returned
        /\ (~Executing /\ pc' \in {"exec_dir", "exec_move", "exec_cover"}) =>
              /\ pc = "answered"
              /\ answer \in YesAnswers
        /\ (pc = "answered" /\ answer \notin YesAnswers) =>
              /\ pc' = "done"
              /\ fs' = fs
              /\ dirs' = dirs
      ]_vars

\* C26, reached: after a yes, execute has created the directory of the first
\* batch and moved its first volume there.
C26_Witness ==
    /\ pc = "exec_move"
    /\ run = 1
    /\ bi = 1
    /\ mi = 2
    /\ plan[1].batch_dir \in dirs \ dirs0
    /\ Moved(MoveAt(<<1, 1>>))

\* C27: when ensure_series_cover returns no cover, it has neither created nor
\* changed cover.jpg in the series directory: the files are those of the
\* start of the run.
C27_NoCoverLeavesNoCoverJpg ==
    (pc = "cover_return" /\ ret = None) =>
        /\ Exists(fs, SERIES, COVER_JPG) = Exists(fs0, SERIES, COVER_JPG)
        /\ Exists(fs, SERIES, COVER_JPG) =>
              fs[<<SERIES, COVER_JPG>>] = fs0[<<SERIES, COVER_JPG>>]

\* the workers between their start and their finish_action
ActiveWorkers == { w \in Workers : worker[w].pc \notin {"unborn", "done"} }

\* the workers whose subprocess is running
Subprocesses == { w \in Workers : worker[w].pc = "reading" }

\* C28: under every interleaving of the threads serving /api/run and of the
\* workers, at most one worker is active and at most one subprocess runs, and
\* state.running is true while a worker is active; a run_action that finds
\* state.running true under _thread_lock is answered "Another action is
\* already running." and starts no thread.
C28_OneWorkerAtATime ==
    /\ [](/\ Cardinality(ActiveWorkers) <= 1
          /\ Cardinality(Subprocesses) <= 1
          /\ ActiveWorkers # {} => running
          /\ Cardinality({ r \in Requests : req[r].pc \in {"accepted", "starting"} })
                + Cardinality(ActiveWorkers) <= 1)
    /\ [][ \A r \in Requests :
              (req[r].pc = "locked" /\ running /\ req'[r] # req[r]) =>
                  /\ req'[r].reply = "Another action is already running."
                  /\ req'[r].pc = "refused"
                  /\ worker' = worker
                  /\ running' = running ]_vars

\* C28, reached: a request was refused while the second worker, started after
\* the first one finished, had its subprocess running.
C28_Witness ==
    /\ worker[1].pc = "done"
    /\ worker[2].pc = "reading"
    /\ \E r \in Requests : req[r].reply = "Another action is already running."
    /\ \E r \in Requests : req[r].pc = "locked"

Increasing(seq) == \A i, j \in 1..Len(seq) : i < j => seq[i] < seq[j]

\* C30: SharedState.version goes up with every change of the state and never
\* down; the entries of the log carry versions that are strictly increasing
\* and not above version, and so do all the lines ever appended; and the page
\* that polls with the version of its previous answer gets the lines in the
\* order of their append and none of them twice, and has got every line up to
\* the version it holds except the lines the trim or clear_log dropped.
C30_EveryLineOnceInOrder ==
    /\ [][ /\ version' >= version
           /\ (log_entries' # log_entries \/ cover_path' # cover_path) => version' > version
         ]_vars
    /\ [](/\ Increasing([i \in 1..Len(log_entries) |-> log_entries[i][1]])
          /\ \A i \in 1..Len(log_entries) : log_entries[i][1] <= version
          /\ Increasing(logged)
          /\ \A k \in 1..Len(logged) : logged[k] <= version
          /\ stateVersion <= version
          /\ Increasing(delivered)
          /\ Range(delivered) \subseteq 1..Len(logged)
          /\ \A k \in 1..Len(logged) :
                (logged[k] <= stateVersion /\ k \notin dropped) => k \in Range(delivered))

\* C30, reached: the page has polled more than once and holds lines of
\* several answers, a line was appended after the snapshot of the answer that
\* is on its way, one line was dropped before the page could get it and
\* another after the page got it.
C30_Witness ==
    /\ Len(delivered) >= 3
    /\ stateVersion > 2
    /\ poll.pc = "replied"
    /\ poll.data.new_log # <<>>
    /\ poll.data.version < version
    /\ \E k \in dropped : k \notin Range(delivered) /\ logged[k] <= stateVersion
    /\ \E k \in dropped : k \in Range(delivered)

====
